---- MODULE Spec2Model ----
(***************************************************************************)
(* A model of immense's rule-expansion engine: the transform algebra       *)
(* (src/src/api/transforms.rs), rule construction and the lazy worklist    *)
(* traversal MeshIter (src/src/rule.rs).                                   *)
(*                                                                         *)
(* Numbers.  The source computes in f32; the model computes in exact       *)
(* integers.  Lengths are measured in twentieths of the source's unit, so  *)
(* Tf::tx(1.0) is Tf_tx(20), the cube's half edge 0.5 is 10 and RandCube's *)
(* 0.1 is 2.  Scale factors, hue, saturation and value keep their values.  *)
(*                                                                         *)
(* Ghost state.  The fields path and tfs of a worklist entry, and the      *)
(* variables emitted, calls, pushLog and steps, record the history of a    *)
(* run.  No guard and no program value reads them, except the two caps     *)
(* that bound the traversal of an infinite rule graph.                     *)
(*                                                                         *)
(* Two specifications.  Spec is the engine: the user composes a rule and   *)
(* pulls meshes from the iterator.  TfSpec applies the functions of the    *)
(* transform algebra to arguments drawn from bounded sets; the variables   *)
(* op, args and result belong to it and are idle in Spec.                  *)
(***************************************************************************)
EXTENDS Integers, Sequences, FiniteSets, TLC

VARIABLES
    phase,      \* "build": the user is composing the rule; "iter": generate() was called
    rule,       \* Rule.invocations of the rule under construction (the root rule after generate)
    rules,      \* MeshIter.rules, the worklist; its last element is the top of the stack
    pc,         \* "idle": no next() call is active; "running": inside the loop of next()
    last,       \* what the last finished next() returned: Some(OutputMesh) or None (NotCalled before)
    nextRc,     \* the number of Rc allocations so far: the id of the next one
    emitted,    \* ghost: path and source of the OutputMesh records returned so far, oldest first
    calls,      \* ghost: the to_rule calls made so far, oldest first
    pushLog,    \* ghost: the Rule::push calls made so far, oldest first
    steps,      \* ghost: pop/expand steps taken by the active next() call
    op,         \* the function of the transform algebra that was applied ("none" before)
    args,       \* the arguments it is applied to
    result,     \* what it returned
    meshes,     \* the Mesh objects in memory: the statics and the Rc<Mesh> allocations, by reference
    export,     \* the state of a write_meshes call: its locals, the two sinks and its result
    system      \* the state of a compile call: its locals and its result

vars == <<phase, rule, rules, pc, last, nextRc, emitted, calls, pushLog, steps, op, args, result,
          meshes, export, system>>

----------------------------------------------------------------------------
(* Bounds of the model. *)

\* Rule::push calls the user makes before generate().
MaxPush == 2
\* Largest n of Replicate::n(n, _).
MaxN == 3
\* Largest depth_budget of a RecursiveTile.
MaxDepth == 1
\* Results the consumer of an infinite rule graph takes (take(MaxTake)).
MaxTake == 3
\* Pop/expand steps one next() call on an infinite rule graph is followed for.
MaxSteps == 6
\* How many of RandCube's four transforms the random source yields.
RandChoices == 2
\* Longest vector of replications converted.
MaxStages == 2
\* Longest list of transforms Transform::cross is applied to.
MaxSet == 2
\* Longest path of invocation entries from the root rule to a mesh.
MaxPath == 3

----------------------------------------------------------------------------
(* Option<T> *)

None == [some |-> FALSE]
Some(x) == [some |-> TRUE, val |-> x]

----------------------------------------------------------------------------
(* Matrix4<f32>, as four rows of four entries. *)

identity ==
    << <<1, 0, 0, 0>>,
       <<0, 1, 0, 0>>,
       <<0, 0, 1, 0>>,
       <<0, 0, 0, 1>> >>

\* Entry (i, j) of the product.
Dot(a, b, i, j) ==
    a[i][1] * b[1][j] + a[i][2] * b[2][j] + a[i][3] * b[3][j] + a[i][4] * b[4][j]

MatRow(a, b, i) == <<Dot(a, b, i, 1), Dot(a, b, i, 2), Dot(a, b, i, 3), Dot(a, b, i, 4)>>

MatMul(a, b) == <<MatRow(a, b, 1), MatRow(a, b, 2), MatRow(a, b, 3), MatRow(a, b, 4)>>

Translate_by(x, y, z) ==
    << <<1, 0, 0, x>>,
       <<0, 1, 0, y>>,
       <<0, 0, 1, z>>,
       <<0, 0, 0, 1>> >>

Scale_by(x, y, z) ==
    << <<x, 0, 0, 0>>,
       <<0, y, 0, 0>>,
       <<0, 0, z, 0>>,
       <<0, 0, 0, 1>> >>

Scale_all(factor) == Scale_by(factor, factor, factor)

\* f32::to_radians followed by cos and sin, for the angles (in degrees) that
\* have integer values: the multiples of 90.
Cos(deg) ==
    CASE deg % 360 = 0 -> 1
      [] deg % 360 = 90 -> 0
      [] deg % 360 = 180 -> -1
      [] deg % 360 = 270 -> 0

\* A mutant of Sin: the sign of the angle is dropped.
Sin_unsigned(deg) ==
    LET d == (IF deg < 0 THEN -deg ELSE deg) % 360
    IN  CASE d = 0 -> 0
          [] d = 90 -> 1
          [] d = 180 -> 0
          [] d = 270 -> -1

Sin(deg) ==
    CASE deg % 360 = 0 -> 0
      [] deg % 360 = 90 -> 1
      [] deg % 360 = 180 -> 0
      [] deg % 360 = 270 -> -1

\* Rotate::x, Rotate::y, Rotate::z.  The source's 0.5 is 10.
Rotate_x(x) ==
    MatMul(MatMul(Translate_by(0, 10, 10),
                  << <<1, 0,      0,       0>>,
                     <<0, Cos(x), -Sin(x), 0>>,
                     <<0, Sin(x), Cos(x),  0>>,
                     <<0, 0,      0,       1>> >>),
           Translate_by(0, -10, -10))

Rotate_y(y) ==
    MatMul(MatMul(Translate_by(10, 0, 10),
                  << <<Cos(y),  0, Sin(y), 0>>,
                     <<0,       1, 0,      0>>,
                     <<-Sin(y), 0, Cos(y), 0>>,
                     <<0,       0, 0,      1>> >>),
           Translate_by(-10, 0, -10))

Rotate_z(z) ==
    MatMul(MatMul(Translate_by(10, 10, 0),
                  << <<Cos(z), -Sin(z), 0, 0>>,
                     <<Sin(z), Cos(z),  0, 0>>,
                     <<0,      0,       1, 0>>,
                     <<0,      0,       0, 1>> >>),
           Translate_by(-10, -10, 0))

\* mesh::vertex and Matrix4 * Vertex.
vertex(x, y, z) == <<x, y, z, 1>>

MatVec(m, v) ==
    <<m[1][1] * v[1] + m[1][2] * v[2] + m[1][3] * v[3] + m[1][4] * v[4],
      m[2][1] * v[1] + m[2][2] * v[2] + m[2][3] * v[3] + m[2][4] * v[4],
      m[3][1] * v[1] + m[3][2] * v[2] + m[3][3] * v[3] + m[3][4] * v[4],
      m[4][1] * v[1] + m[4][2] * v[2] + m[4][3] * v[3] + m[4][4] * v[4]>>

----------------------------------------------------------------------------
(* ColorTransform and Transform *)

Hsv(h, s, v) == [hue |-> h, saturation |-> s, value |-> v]

Override(color) == [tag |-> "Override", hsv |-> color]
Delta(delta) == [tag |-> "Delta", hsv |-> delta]

\* A mutant of ColorTransform_default: a delta that zeroes saturation and value.
ColorTransform_default_zero == Delta(Hsv(0, 0, 0))

ColorTransform_default == Delta(Hsv(0, 1, 1))

\* A mutant of ColorTransform_cons: a delta composed onto an override yields
\* a delta.
ColorTransform_cons_override_lost(self, other) ==
    IF other.tag = "Override"
    THEN Override(other.hsv)
    ELSE Delta(Hsv(self.hsv.hue + other.hsv.hue,
                   self.hsv.saturation * other.hsv.saturation,
                   self.hsv.value * other.hsv.value))

\* A mutant of ColorTransform_cons: the outer override wins over the inner.
ColorTransform_cons_outer_wins(self, other) ==
    IF self.tag = "Override"
    THEN IF other.tag = "Override"
         THEN Override(self.hsv)
         ELSE Override(Hsv(self.hsv.hue + other.hsv.hue,
                           self.hsv.saturation * other.hsv.saturation,
                           self.hsv.value * other.hsv.value))
    ELSE IF other.tag = "Override"
    THEN Override(other.hsv)
    ELSE Delta(Hsv(self.hsv.hue + other.hsv.hue,
                   self.hsv.saturation * other.hsv.saturation,
                   self.hsv.value * other.hsv.value))

ColorTransform_cons(self, other) ==
    IF other.tag = "Override"
    THEN Override(other.hsv)
    ELSE IF self.tag = "Override"
    THEN Override(Hsv(self.hsv.hue + other.hsv.hue,
                      self.hsv.saturation * other.hsv.saturation,
                      self.hsv.value * other.hsv.value))
    ELSE Delta(Hsv(self.hsv.hue + other.hsv.hue,
                   self.hsv.saturation * other.hsv.saturation,
                   self.hsv.value * other.hsv.value))

Transform_default == [spatial |-> identity, color |-> ColorTransform_default]

\* A mutant of Transform_cons: the operands of the product are swapped.
Transform_cons_swapped(self, other) ==
    [spatial |-> MatMul(other.spatial, self.spatial),
     color |-> ColorTransform_cons(other.color, self.color)]

\* Transform::cons.  (self and other are bound as the elements of singleton
\* sets so that each is evaluated once.)
Transform_cons(self, other) ==
    CHOOSE t \in {[spatial |-> MatMul(x.spatial, y.spatial),
                   color |-> ColorTransform_cons(x.color, y.color)] :
                        x \in {self}, y \in {other}} : TRUE

Tf_t(x, y, z) == [spatial |-> Translate_by(x, y, z), color |-> ColorTransform_default]
Tf_tx(x) == [spatial |-> Translate_by(x, 0, 0), color |-> ColorTransform_default]
Tf_ty(y) == [spatial |-> Translate_by(0, y, 0), color |-> ColorTransform_default]
Tf_s(factor) == [spatial |-> Scale_all(factor), color |-> ColorTransform_default]
Tf_tz(z) == [spatial |-> Translate_by(0, 0, z), color |-> ColorTransform_default]
Tf_sby(x, y, z) == [spatial |-> Scale_by(x, y, z), color |-> ColorTransform_default]
Tf_rx(x) == [spatial |-> Rotate_x(x), color |-> ColorTransform_default]
Tf_ry(y) == [spatial |-> Rotate_y(y), color |-> ColorTransform_default]
Tf_rz(z) == [spatial |-> Rotate_z(z), color |-> ColorTransform_default]
Tf_color(color) == [spatial |-> identity, color |-> Override(color)]
Tf_hue(delta) == [spatial |-> identity, color |-> Delta(Hsv(delta, 1, 1))]
Tf_saturation(factor) == [spatial |-> identity, color |-> Delta(Hsv(0, factor, 1))]
Tf_value(factor) == [spatial |-> identity, color |-> Delta(Hsv(0, 1, factor))]

\* Transform::apply_to
Transform_apply_to(self, v) == MatVec(self.spatial, v)

\* ColorTransform::color
ColorTransform_color(self) ==
    IF self.tag = "Override"
    THEN self.hsv
    ELSE Hsv(0 + self.hsv.hue, 1 * self.hsv.saturation, 1 * self.hsv.value)

\* Rgb::from(Hsv), palette's conversion, with the components of the result in
\* sixtieths (60 is 1.0) so that it is exact for every integer hue.
Abs(n) == IF n < 0 THEN -n ELSE n

Rgb(r, g, b) == [red |-> r, green |-> g, blue |-> b]

Rgb_from(hsv) ==
    LET c == hsv.value * hsv.saturation
        h == hsv.hue % 360
        x == c * (60 - Abs((h % 120) - 60))
        m == 60 * (hsv.value - c)
    IN  CASE h < 60 -> Rgb(60 * c + m, x + m, m)
          [] h >= 60 /\ h < 120 -> Rgb(x + m, 60 * c + m, m)
          [] h >= 120 /\ h < 180 -> Rgb(m, 60 * c + m, x + m)
          [] h >= 180 /\ h < 240 -> Rgb(m, x + m, 60 * c + m)
          [] h >= 240 /\ h < 300 -> Rgb(x + m, m, 60 * c + m)
          [] h >= 300 -> Rgb(60 * c + m, m, x + m)

\* Transform::get_color
Transform_get_color(self) ==
    Rgb_from(ColorTransform_color(ColorTransform_cons(Override(Hsv(0, 1, 1)), self.color)))

\* The loops of Transform::cross: the children of one parent, then the
\* parents in order.
Cross_children(parent, children) ==
    [j \in 1..Len(children) |-> Transform_cons(parent, children[j])]

\* A mutant of Transform_cross: the loops are exchanged, the children
\* outermost.
RECURSIVE Transform_cross_children_outermost(_, _)
Transform_cross_children_outermost(parents, children) ==
    IF children = <<>>
    THEN <<>>
    ELSE [i \in 1..Len(parents) |-> Transform_cons(parents[i], Head(children))]
         \o Transform_cross_children_outermost(parents, Tail(children))

RECURSIVE Transform_cross(_, _)
Transform_cross(parents, children) ==
    IF parents = <<>>
    THEN <<>>
    ELSE Cross_children(Head(parents), children) \o Transform_cross(Tail(parents), children)

RECURSIVE Fold_cons(_, _)
Fold_cons(prefix, source) ==
    IF source = <<>>
    THEN prefix
    ELSE Fold_cons(Transform_cons(prefix, Head(source)), Tail(source))

Transform_coalesce(default, source) ==
    Fold_cons(IF default.some THEN default.val ELSE Transform_default, source)

\* A mutant of Transform_stack: the fold starts from the identity, so that
\* stack(0) is the identity and stack(i) holds i copies.
Transform_stack_from_identity(self, n) ==
    Transform_coalesce(None, [i \in 1..n |-> self])

Transform_stack(self, n) ==
    Transform_coalesce(Some(self), [i \in 1..n |-> self])

----------------------------------------------------------------------------
(* TransformArgument and the conversions into it *)

Single(transform) == [tag |-> "Single", transforms |-> <<transform>>]
Many(transforms) == [tag |-> "Many", transforms |-> transforms]

\* impl Into<TransformArgument> for Replicate, on the converted source.
Replicate_into(n, source) ==
    IF source.tag = "Single"
    THEN Many([k \in 1..n |-> Transform_stack(source.transforms[1], k - 1)])
    ELSE Many([k \in 1..(Len(source.transforms) * n) |->
                Transform_stack(source.transforms[((k - 1) \div n) + 1], (k - 1) % n)])

\* What the user passes as `transforms`: a Transform, None, a Vec<Transform>
\* or a Replicate whose source is again such a value.
ArgTransform(t) == [kind |-> "Transform", t |-> t]
ArgNone == [kind |-> "None"]
ArgVec(ts) == [kind |-> "Vec", ts |-> ts]
ArgReplicate(n, source) == [kind |-> "Replicate", n |-> n, source |-> source]
\* vec![Replicate, ...]: replications is a sequence of ArgReplicate.
ArgReplicates(replications) == [kind |-> "Replicates", replications |-> replications]
\* tf![...]: the Vec<TransformArgument> of the converted items.
ArgTf(items) == [kind |-> "Tf", items |-> items]

\* impl Into<Vec<Transform>> for TransformArgument
Into_Vec(ta) == ta.transforms

\* impl From<Vec<TransformArgument>> for TransformArgument: the vector
\* `emitted` after the loop over args, acc being its value so far.
RECURSIVE Cross_args(_, _)
Cross_args(acc, converted) ==
    IF converted = <<>>
    THEN acc
    ELSE Cross_args(Transform_cross(acc, Into_Vec(Head(converted))), Tail(converted))

From_Vec_TransformArgument(converted) == Many(Cross_args(<<Transform_default>>, converted))

\* impl From<Vec<Replicate>> for TransformArgument: the vector `emitted`
\* after the loop over the converted replications, acc being its value so far.
RECURSIVE Cross_replications(_, _)
Cross_replications(acc, converted) ==
    IF converted = <<>>
    THEN acc
    ELSE Cross_replications(
            IF acc = <<>>
            THEN Into_Vec(Head(converted))
            ELSE Transform_cross(acc, Into_Vec(Head(converted))),
            Tail(converted))

From_Vec_Replicate(converted) == Many(Cross_replications(<<>>, converted))

RECURSIVE IntoTransformArgument(_)
IntoTransformArgument(arg) ==
    CASE arg.kind = "Transform" -> Single(arg.t)
      [] arg.kind = "None" -> Many(<<>>)
      [] arg.kind = "Vec" -> Single(Transform_coalesce(None, arg.ts))
      [] arg.kind = "Replicate" -> Replicate_into(arg.n, IntoTransformArgument(arg.source))
      [] arg.kind = "Replicates" ->
            From_Vec_Replicate([i \in 1..Len(arg.replications) |->
                                    IntoTransformArgument(arg.replications[i])])
      [] arg.kind = "Tf" ->
            From_Vec_TransformArgument([i \in 1..Len(arg.items) |->
                                            IntoTransformArgument(arg.items[i])])

----------------------------------------------------------------------------
(* Rule, RuleInternal, OutputMeshSource and the values that implement ToRule *)

Primitive(mesh) == [tag |-> "Primitive", mesh |-> mesh]
Dynamic(rc) == [tag |-> "Dynamic", rc |-> rc]

RuleMesh(source) == [tag |-> "Mesh", source |-> source]
\* Rc<ToRule>: the allocation rc and the (immutable) value it holds.
RuleInvocations(rc, obj) == [tag |-> "Invocations", rc |-> rc, obj |-> obj]

Invocation(transform, r) == [transform |-> transform, rule |-> r]

Rule_new == <<>>
Rule_primitive(mesh) == <<Invocation(None, RuleMesh(Primitive(mesh)))>>
Rule_mesh(rc) == <<Invocation(None, RuleMesh(Dynamic(rc)))>>

\* The values the user invokes as subrules.
ObjRule(invocations) == [kind |-> "Rule", invocations |-> invocations]
ObjRcMesh(rc) == [kind |-> "RcMesh", mesh |-> rc]
ObjRecursiveTile(d) == [kind |-> "RecursiveTile", depth_budget |-> d]
ObjRandCube == [kind |-> "RandCube"]
ObjForever(selfLast) == [kind |-> "Forever", selfLast |-> selfLast]

cube == ObjRule(Rule_primitive("Cube"))
\* The Rc<Mesh> the user got from sphere(resolution) before composing the
\* rule: allocation 0.
sphere == ObjRcMesh(0)

\* A mutant of Rule_push: one Rc allocation (one copy of the child) per branch.
Rule_push_copy_per_branch(self, ta, child, rc) ==
    IF ta.tag = "Single"
    THEN [invocations |-> Append(self, Invocation(Some(ta.transforms[1]), RuleInvocations(rc, child))),
          rc |-> rc + 1, called |-> <<>>]
    ELSE IF ta.transforms # <<>>
    THEN [invocations |-> self \o [i \in 1..Len(ta.transforms) |->
                            Invocation(Some(ta.transforms[i]), RuleInvocations(rc + i - 1, child))],
          rc |-> rc + Len(ta.transforms), called |-> <<>>]
    ELSE [invocations |-> Append(self, Invocation(None, RuleInvocations(rc, child))),
          rc |-> rc + 1, called |-> <<>>]

\* Rule::push on the converted argument.  rc is the allocation counter; the
\* result holds the rule, the counter after the call and (ghost) the values
\* whose to_rule the call invoked: none.
Rule_push(self, ta, child, rc) ==
    IF ta.tag = "Single"
    THEN [invocations |-> Append(self, Invocation(Some(ta.transforms[1]), RuleInvocations(rc, child))),
          rc |-> rc + 1, called |-> <<>>]
    ELSE IF ta.transforms # <<>>
    THEN [invocations |-> self \o [i \in 1..Len(ta.transforms) |->
                            Invocation(Some(ta.transforms[i]), RuleInvocations(rc, child))],
          rc |-> rc + 1, called |-> <<>>]
    ELSE [invocations |-> Append(self, Invocation(None, RuleInvocations(rc, child))),
          rc |-> rc + 1, called |-> <<>>]

\* Rule::push called in sequence: items is a sequence of [ta, child].  (res,
\* the result of the first call, is bound as the element of a singleton set
\* so that it is evaluated once.)
RECURSIVE Rule_push_all(_, _, _)
Rule_push_all(self, items, rc) ==
    IF items = <<>>
    THEN [invocations |-> self, rc |-> rc]
    ELSE CHOOSE out \in {Rule_push_all(res.invocations, Tail(items), res.rc) :
                            res \in {Rule_push(self, Head(items).ta, Head(items).child, rc)}} : TRUE

Item(arg, child) == [ta |-> IntoTransformArgument(arg), child |-> child]

\* RecursiveTile::to_rule of the crate documentation.  Tf::s(0.4) has no
\* integer matrix: the model's tile scales by 2 instead.
RecursiveTile_to_rule(d, rc) ==
    Rule_push_all(Rule_new,
        << Item(ArgVec(<<Tf_t(5, 5, 0), Tf_s(2)>>), cube),
           Item(ArgVec(<<Tf_t(-5, -5, 0), Tf_s(2)>>), cube),
           Item(ArgVec(<<Tf_t(-5, 5, 0), Tf_s(2)>>), cube) >>
        \o (IF d > 0
            THEN <<Item(ArgVec(<<Tf_t(5, -5, 0), Tf_s(2)>>), ObjRecursiveTile(d - 1))>>
            ELSE <<>>),
        rc)

\* The transforms RandCube chooses from: Tf::tx(0.1), (-0.1), (0.2), (-0.2).
RandCube_transforms == <<Tf_tx(2), Tf_tx(-2), Tf_tx(4), Tf_tx(-4)>>

RandCube_to_rule(choice, rc) ==
    Rule_push_all(Rule_new, <<Item(ArgTransform(RandCube_transforms[choice]), cube)>>, rc)

\* A producer that always recurses: one mesh invocation and one invocation
\* of itself, the latter declared first or last.
Forever_to_rule(selfLast, rc) ==
    Rule_push_all(Rule_new,
        IF selfLast
        THEN <<Item(ArgNone, cube), Item(ArgTransform(Tf_ty(20)), ObjForever(selfLast))>>
        ELSE <<Item(ArgTransform(Tf_ty(20)), ObjForever(selfLast)), Item(ArgNone, cube)>>,
        rc)

\* ToRule::to_rule: the set of results a call may return, each the Rule
\* and the allocation counter after the call.
to_rule(obj, rc) ==
    CASE obj.kind = "Rule" -> {[invocations |-> obj.invocations, rc |-> rc]}
      [] obj.kind = "RcMesh" -> {[invocations |-> Rule_mesh(obj.mesh), rc |-> rc]}
      [] obj.kind = "RecursiveTile" -> {RecursiveTile_to_rule(obj.depth_budget, rc)}
      [] obj.kind = "RandCube" ->
            {RandCube_to_rule(c, rc) : c \in 1..(IF RandChoices < 4 THEN RandChoices ELSE 4)}
      [] obj.kind = "Forever" -> {Forever_to_rule(obj.selfLast, rc)}

----------------------------------------------------------------------------
(* MeshIter *)

\* A worklist entry: the pair (transform, rule) of the source, and ghost
\* fields: path, the positions of the invocation entries from the root rule
\* down to this entry; tfs, the transforms those entries carry, root first.
Entry(transform, r, path, tfs) ==
    [transform |-> transform, rule |-> r, path |-> path, tfs |-> tfs]

OutputMesh(transform, source, path, tfs) ==
    [transform |-> transform, source |-> source, path |-> path, tfs |-> tfs]

\* A mutant of Accumulate: the child is composed on the left of the parent.
Accumulate_child_first(transform, sub_transform) ==
    IF transform.some /\ sub_transform.some
    THEN Some(Transform_cons(sub_transform.val, transform.val))
    ELSE IF transform.some THEN transform ELSE sub_transform

\* A mutant of Accumulate: an entry without a transform resets the parent's.
Accumulate_absent_resets(transform, sub_transform) ==
    IF transform.some /\ sub_transform.some
    THEN Some(Transform_cons(transform.val, sub_transform.val))
    ELSE sub_transform

\* The match on (transform, sub_transform) of MeshIter::next.
Accumulate(transform, sub_transform) ==
    IF ~transform.some /\ ~sub_transform.some
    THEN None
    ELSE IF transform.some /\ ~sub_transform.some
    THEN Some(transform.val)
    ELSE IF transform.some /\ sub_transform.some
    THEN Some(Transform_cons(transform.val, sub_transform.val))
    ELSE Some(sub_transform.val)

\* The transform MeshIter::next accumulates from the root entry (None) down
\* a path of invocation entries: transforms holds the Option<Transform> of
\* each entry, root first.
RECURSIVE Accumulate_from(_, _)
Accumulate_from(transform, transforms) ==
    IF transforms = <<>>
    THEN transform
    ELSE Accumulate_from(Accumulate(transform, Head(transforms)), Tail(transforms))

Accumulate_path(transforms) == Accumulate_from(None, transforms)

\* CUBE_MESH's vertices; the source's 0.5 is 10.
CUBE_MESH_vertices ==
    << vertex(-10, 10, 10), vertex(-10, -10, 10), vertex(10, -10, 10), vertex(10, 10, 10),
       vertex(-10, 10, -10), vertex(-10, -10, -10), vertex(10, -10, -10), vertex(10, 10, -10) >>

\* Mesh::new
Mesh_new(vertices, normals, faces) ==
    [vertices |-> vertices, normals |-> normals, faces |-> faces]

CUBE_MESH ==
    Mesh_new(CUBE_MESH_vertices, None,
             << <<1, 2, 3, 4>>, <<8, 7, 6, 5>>, <<4, 3, 7, 8>>,
                <<5, 1, 4, 8>>, <<5, 6, 2, 1>>, <<2, 6, 7, 3>> >>)

\* sphere_of_resolution: the tables genmesh's IcoSphere generates, with
\* normals.  Their coordinates are not rational: the model names the tables
\* and does not list them.
sphere_of_resolution(resolution) ==
    Mesh_new([table |-> "shared_vertex.pos", resolution |-> resolution],
             Some([table |-> "shared_vertex.normal", resolution |-> resolution]),
             [table |-> "indexed_polygon", resolution |-> resolution])

ICO_SPHERE == sphere_of_resolution(0)

\* A mesh of the user, Mesh::from(vertices, Some(normals), faces): a
\* triangle in the plane z = 0 and a second one above it, a normal for each
\* vertex.
CustomMesh ==
    Mesh_new(<<vertex(0, 0, 0), vertex(20, 0, 0), vertex(0, 20, 0), vertex(0, 0, 20)>>,
             Some(<<vertex(0, 0, 20), vertex(0, 0, 20), vertex(0, 0, 20), vertex(20, 0, 0)>>),
             << <<1, 2, 3>>, <<1, 3, 4>> >>)

\* The statics of mesh.rs.  (lazy_static initialises each at its first use,
\* once; the model holds them from the start.)
StaticMeshes ==
    (Primitive("Cube") :> CUBE_MESH) @@ (Primitive("IcoSphere") :> ICO_SPHERE)

\* The meshes in memory when the user starts composing a rule: the statics
\* and the user's Rc<Mesh>, allocation 0: sphere(4), or a custom mesh.
SphereMeshes == StaticMeshes @@ (Dynamic(0) :> sphere_of_resolution(4))
CustomMeshes == StaticMeshes @@ (Dynamic(0) :> CustomMesh)

\* OutputMesh::mesh
OutputMesh_mesh(self) == meshes[self.source]

\* OutputMesh::color
OutputMesh_color(mesh) ==
    Transform_get_color(IF mesh.transform.some THEN mesh.transform.val ELSE Transform_default)

\* A mutant of OutputMesh_vertices: the vertices of the source, untransformed.
OutputMesh_vertices_untransformed(mesh) == OutputMesh_mesh(mesh).vertices

\* OutputMesh::vertices
OutputMesh_vertices(mesh) ==
    LET vs == OutputMesh_mesh(mesh).vertices
    IN  [i \in 1..Len(vs) |->
            IF mesh.transform.some
            THEN Transform_apply_to(mesh.transform.val, vs[i])
            ELSE vs[i]]

\* OutputMesh::normals
OutputMesh_normals(mesh) ==
    LET normals == OutputMesh_mesh(mesh).normals
    IN  IF normals.some
        THEN Some([i \in 1..Len(normals.val) |->
                    IF mesh.transform.some
                    THEN Transform_apply_to(mesh.transform.val, normals.val[i])
                    ELSE normals.val[i]])
        ELSE None

\* OutputMesh::faces
OutputMesh_faces(mesh) == OutputMesh_mesh(mesh).faces

\* The entry pushed for the i-th invocation of the rule `top` expanded to.
SubEntry(top, invocations, i) ==
    Entry(Accumulate(top.transform, invocations[i].transform),
          invocations[i].rule,
          Append(top.path, i),
          top.tfs \o (IF invocations[i].transform.some
                      THEN <<invocations[i].transform.val>>
                      ELSE <<>>))

\* A mutant of Expansion: the loop starts at the second invocation.
Expansion_skip_first(top, invocations) ==
    [i \in 1..(Len(invocations) - 1) |-> SubEntry(top, invocations, i + 1)]

\* A mutant of Expansion: the invocations are pushed last to first.
Expansion_reversed(top, invocations) ==
    [i \in 1..Len(invocations) |-> SubEntry(top, invocations, Len(invocations) - i + 1)]

\* A mutant of Expansion: every invocation is pushed twice.
Expansion_twice(top, invocations) ==
    [i \in 1..(2 * Len(invocations)) |-> SubEntry(top, invocations, (i + 1) \div 2)]

\* The entries the expansion of `top` pushes, in push order (the for loop
\* of MeshIter::next).
Expansion(top, invocations) ==
    [i \in 1..Len(invocations) |-> SubEntry(top, invocations, i)]

Front(s) == SubSeq(s, 1, Len(s) - 1)
Top(s) == s[Len(s)]

\* Ghost: the record of one to_rule call, on the value held by allocation rc,
\* for the worklist entry at `path`.
Call(top) == [rc |-> top.rule.rc, obj |-> top.rule.obj, path |-> top.path]

\* The loop of next() goes on: no value is returned yet.
Continue == [some |-> FALSE, continue |-> TRUE]
\* No next() call has returned yet.
NotCalled == [some |-> FALSE, called |-> FALSE]

\* A mutant of MeshIter_next_step: before it returns a mesh, next() expands
\* the producer that is next on the worklist.
MeshIter_next_step_prefetch(rs, r, log, rc) ==
    IF rs = <<>>
    THEN [rules |-> rs, calls |-> log, rc |-> rc, ret |-> None]
    ELSE LET top == Top(rs)
             below == Front(rs)
         IN  IF top.rule.tag = "Mesh"
             THEN LET ret == Some(OutputMesh(top.transform, top.rule.source, top.path, top.tfs))
                  IN  IF below # <<>> /\ Top(below).rule.tag = "Invocations"
                      THEN LET ahead == CHOOSE x \in to_rule(Top(below).rule.obj, rc) : TRUE
                           IN  [rules |-> Front(below) \o Expansion(Top(below), ahead.invocations),
                                calls |-> Append(log, Call(Top(below))), rc |-> ahead.rc,
                                ret |-> ret]
                      ELSE [rules |-> below, calls |-> log, rc |-> rc, ret |-> ret]
             ELSE [rules |-> below \o Expansion(top, r.invocations),
                   calls |-> Append(log, Call(top)), rc |-> r.rc,
                   ret |-> Continue]

\* A mutant of MeshIter_next_step: the Rule a producer returned is kept per
\* allocation and reused the next time the same allocation is popped.
MeshIter_next_step_memo(rs, r, log, rc) ==
    IF rs = <<>>
    THEN [rules |-> rs, calls |-> log, rc |-> rc, ret |-> None]
    ELSE LET top == Top(rs) IN
         IF top.rule.tag = "Mesh"
         THEN [rules |-> Front(rs), calls |-> log, rc |-> rc,
               ret |-> Some(OutputMesh(top.transform, top.rule.source, top.path, top.tfs))]
         ELSE IF \E j \in 1..Len(log) : log[j].rc = top.rule.rc
         THEN [rules |-> Front(rs) \o Expansion(top, r.invocations),
               calls |-> log, rc |-> r.rc,
               ret |-> Continue]
         ELSE [rules |-> Front(rs) \o Expansion(top, r.invocations),
               calls |-> Append(log, Call(top)), rc |-> r.rc,
               ret |-> Continue]

\* A mutant of MeshIter_next_step: `if let` in place of `while let`, so that
\* next() falls through to None after one expansion.
MeshIter_next_step_no_loop(rs, r, log, rc) ==
    IF rs = <<>>
    THEN [rules |-> rs, calls |-> log, rc |-> rc, ret |-> None]
    ELSE LET top == Top(rs) IN
         IF top.rule.tag = "Mesh"
         THEN [rules |-> Front(rs), calls |-> log, rc |-> rc,
               ret |-> Some(OutputMesh(top.transform, top.rule.source, top.path, top.tfs))]
         ELSE [rules |-> Front(rs) \o Expansion(top, r.invocations),
               calls |-> Append(log, Call(top)), rc |-> r.rc,
               ret |-> None]

\* One iteration of the loop of MeshIter::next on the worklist rs.  r is
\* what to_rule returns if this iteration calls it, log the to_rule calls so
\* far.  The result: the worklist, the log, the allocation counter and ret,
\* which is Continue when the loop goes on and the value next() returns
\* otherwise.
\* A mutant of MeshIter_next_step: each OutputMesh gets a copy of its mesh,
\* in a new allocation.
MeshIter_next_step_copy_mesh(rs, r, log, rc) ==
    IF rs = <<>>
    THEN [rules |-> rs, calls |-> log, rc |-> rc, ret |-> None]
    ELSE LET top == Top(rs) IN
         IF top.rule.tag = "Mesh"
         THEN [rules |-> Front(rs), calls |-> log, rc |-> rc + 1,
               ret |-> Some(OutputMesh(top.transform, Dynamic(rc), top.path, top.tfs))]
         ELSE [rules |-> Front(rs) \o Expansion(top, r.invocations),
               calls |-> Append(log, Call(top)), rc |-> r.rc,
               ret |-> Continue]

MeshIter_next_step(rs, r, log, rc) ==
    IF rs = <<>>
    THEN [rules |-> rs, calls |-> log, rc |-> rc, ret |-> None]
    ELSE LET top == Top(rs) IN
         IF top.rule.tag = "Mesh"
         THEN [rules |-> Front(rs), calls |-> log, rc |-> rc,
               ret |-> Some(OutputMesh(top.transform, top.rule.source, top.path, top.tfs))]
         ELSE [rules |-> Front(rs) \o Expansion(top, r.invocations),
               calls |-> Append(log, Call(top)), rc |-> r.rc,
               ret |-> Continue]

\* The results to_rule may return for the top of the worklist (a dummy when
\* the iteration calls no producer).
Returns(rs, rc) ==
    IF rs # <<>> /\ Top(rs).rule.tag = "Invocations"
    THEN to_rule(Top(rs).rule.obj, rc)
    ELSE {[invocations |-> <<>>, rc |-> rc]}

\* No write_meshes call was made.
NotExporting == [pc |-> "idle"]

\* No compile call was made.
NotCompiling == [pc |-> "idle"]

----------------------------------------------------------------------------
(* The inputs: what the user pushes. *)

\* rule.push(arg, child): the pairs the user may pass.  A cube under every
\* kind of argument, and every other kind of subrule under one argument.
PushInputs ==
    {[arg |-> a, child |-> cube] :
        a \in {ArgTransform(Tf_tx(20)), ArgNone}
              \cup {ArgReplicate(n, ArgTransform(Tf_ty(20))) : n \in 0..MaxN}
              \cup {ArgReplicate(MaxN - 1, ArgReplicate(2, ArgTransform(Tf_s(2))))}}
    \cup {[arg |-> ArgTransform(Tf_s(2)), child |-> sphere],
          [arg |-> ArgReplicate(2, ArgTransform(Tf_ty(20))), child |-> ObjRandCube],
          [arg |-> ArgTransform(Tf_ty(20)), child |-> ObjForever(FALSE)],
          [arg |-> ArgTransform(Tf_ty(20)), child |-> ObjForever(TRUE)]}
    \cup {[arg |-> ArgTransform(Tf_tx(20)), child |-> ObjRecursiveTile(MaxDepth)]}

\* Rule::new().push(arg, rule): the arguments the user may pass.
NestInputs == {ArgReplicate(2, ArgTransform(Tf_ty(20)))}

\* No always-recursing producer was pushed: the rule graph is a finite tree.
Finite == \A i \in 1..Len(pushLog) : pushLog[i].child.kind # "Forever"

----------------------------------------------------------------------------
(* The state machine *)

Init ==
    /\ phase = "build"
    /\ rule = Rule_new
    /\ rules = <<>>
    /\ pc = "idle"
    /\ last = NotCalled
    /\ nextRc = 1
    /\ emitted = <<>>
    /\ calls = <<>>
    /\ pushLog = <<>>
    /\ steps = 0
    /\ op = "none"
    /\ args = <<>>
    /\ result = <<>>
    /\ meshes = SphereMeshes
    /\ export = NotExporting
    /\ system = NotCompiling

\* Ghost: what the log of emissions keeps of an OutputMesh.
Emission(mesh) == [path |-> mesh.path, source |-> mesh.source]

PushRecord(arg, ta, child, before, res, rc) ==
    [arg |-> arg, ta |-> ta, child |-> child, before |-> before,
     after |-> res.invocations, rc |-> rc, rcAfter |-> res.rc]

CalledAtPush(called) ==
    [i \in 1..Len(called) |-> [rc |-> 0, obj |-> called[i], path |-> <<>>]]

\* rule = rule.push(arg, child)
Push(arg, child) ==
    /\ phase = "build"
    /\ Len(pushLog) < MaxPush
    /\ LET ta == IntoTransformArgument(arg)
           res == Rule_push(rule, ta, child, nextRc)
       IN  /\ rule' = res.invocations
           /\ nextRc' = res.rc
           /\ calls' = calls \o CalledAtPush(res.called)
           /\ pushLog' = Append(pushLog, PushRecord(arg, ta, child, rule, res, nextRc))
    /\ UNCHANGED <<phase, rules, pc, last, emitted, steps, op, args, result, meshes, export, system>>

\* rule = Rule::new().push(arg, rule): the rule built so far becomes the
\* subrule of a new rule.
Nest(arg) ==
    /\ phase = "build"
    /\ Len(pushLog) < MaxPush
    /\ LET ta == IntoTransformArgument(arg)
           res == Rule_push(Rule_new, ta, ObjRule(rule), nextRc)
       IN  /\ rule' = res.invocations
           /\ nextRc' = res.rc
           /\ calls' = calls \o CalledAtPush(res.called)
           /\ pushLog' = Append(pushLog, PushRecord(arg, ta, ObjRule(rule), Rule_new, res, nextRc))
    /\ UNCHANGED <<phase, rules, pc, last, emitted, steps, op, args, result, meshes, export, system>>

\* let iter = rule.generate()
Generate ==
    /\ phase = "build"
    /\ phase' = "iter"
    /\ rules' = <<Entry(None, RuleInvocations(nextRc, ObjRule(rule)), <<>>, <<>>)>>
    /\ nextRc' = nextRc + 1
    /\ UNCHANGED <<rule, pc, last, emitted, calls, pushLog, steps, op, args, result, meshes, export, system>>

\* The consumer calls iter.next().  The consumer of an infinite rule graph
\* stops after MaxTake results.
NextCall ==
    /\ phase = "iter"
    /\ pc = "idle"
    /\ Finite \/ Len(emitted) < MaxTake
    /\ pc' = "running"
    /\ steps' = 0
    /\ UNCHANGED <<phase, rule, rules, last, nextRc, emitted, calls, pushLog, op, args, result, meshes, export, system>>

\* One iteration of the loop of next(): it returns or goes on.  A call on an
\* infinite rule graph is followed for MaxSteps iterations.
Step ==
    /\ pc = "running"
    /\ Finite \/ steps < MaxSteps
    /\ \E r \in Returns(rules, nextRc) :
        \E res \in {MeshIter_next_step(rules, r, calls, nextRc)} :
            /\ rules' = res.rules
            /\ calls' = res.calls
            /\ nextRc' = res.rc
            /\ steps' = steps + 1
            /\ IF res.ret = Continue
               THEN UNCHANGED <<pc, last, emitted>>
               ELSE /\ pc' = "idle"
                    /\ last' = res.ret
                    /\ emitted' = IF res.ret.some
                                  THEN Append(emitted, Emission(res.ret.val))
                                  ELSE emitted
    /\ UNCHANGED <<phase, rule, pushLog, op, args, result, meshes, export, system>>

Next ==
    \/ \E in \in PushInputs : Push(in.arg, in.child)
    \/ \E arg \in NestInputs : Nest(arg)
    \/ Generate
    \/ NextCall
    \/ Step

Spec == Init /\ [][Next]_vars

\* The loop of next() runs on, and the consumer goes on calling next().
FairSpec == Spec /\ WF_vars(Step) /\ WF_vars(NextCall)

----------------------------------------------------------------------------
(* The transform algebra: arguments and the functions applied to them. *)

\* Sequences over S of length lo..hi.
SeqsOf(S, lo, hi) == UNION {[1..n -> S] : n \in lo..hi}

\* Transforms of every kind: translation, scale, rotation, color override
\* and color deltas.
TfInputs ==
    {Tf_tx(20), Tf_s(2), Tf_ry(180), Tf_rz(90),
     Tf_color(Hsv(120, 1, 1)), Tf_color(Hsv(240, 2, 1)),
     Tf_hue(60), Tf_saturation(2), Tf_value(3)}

\* The lists Transform::cross is applied to.
CrossInputs == SeqsOf({Tf_tx(20), Tf_s(2), Tf_color(Hsv(120, 1, 1))}, 0, MaxSet)

\* Replicate::n(n, t)
ReplicateInputs ==
    {ArgReplicate(n, ArgTransform(t)) : n \in 0..MaxN, t \in {Tf_tx(20), Tf_s(2)}}

\* The replications of the demo's shape: of one transform or of a vector.
DemoReplicateInputs ==
    {ArgReplicate(n, src) :
        n \in 0..MaxN, src \in {ArgTransform(Tf_ty(20)), ArgVec(<<Tf_rz(90), Tf_tx(20)>>)}}

\* The Option<Transform> of an invocation entry.
EntryInputs ==
    {None, Some(Tf_ry(180)), Some(Tf_tx(80)), Some(Tf_hue(60)), Some(Tf_saturation(2)),
     Some(Tf_color(Hsv(120, 1, 1))), Some(Tf_color(Hsv(240, 2, 1)))}

\* Paths of invocation entries, with the positions whose None is replaced by
\* Some(Transform::default()); position 0 is the root worklist entry.
AbsentInputs ==
    {[transforms |-> p, replaced |-> r] :
        p \in SeqsOf({None, Some(Tf_tx(80)), Some(Tf_rz(90)), Some(Tf_hue(60)),
                      Some(Tf_color(Hsv(120, 1, 1)))}, 0, MaxPath),
        r \in SUBSET (0..MaxPath)}

\* The angles of the rotations applied: those with integer sine and cosine.
Angles == {0, 90, 180, 270}

\* Rotations and scales, and the points they are applied to: the origin, a
\* point on each axis, the point (0.5, 0.5, 0.5) and a point off the axes.
PivotInputs ==
    {Tf_rx(a) : a \in Angles} \cup {Tf_ry(a) : a \in Angles}
    \cup {Tf_rz(a) : a \in Angles} \cup {Tf_s(2), Tf_sby(2, 3, 1)}

\* The angles a rotation and its inverse are taken at, and the rotation
\* about an axis.
SignedAngles == Angles \cup {-a : a \in Angles}

Tf_r(axis, a) ==
    CASE axis = "x" -> Tf_rx(a)
      [] axis = "y" -> Tf_ry(a)
      [] axis = "z" -> Tf_rz(a)

PointInputs ==
    {vertex(0, 0, 0), vertex(20, 0, 0), vertex(0, 20, 0), vertex(0, 0, 20),
     vertex(10, 10, 10), vertex(10, 20, 40)}

ArgsInputs ==
    {[kind |-> "cons", a |-> a, b |-> b, c |-> c] : a \in TfInputs, b \in TfInputs, c \in TfInputs}
    \cup {[kind |-> "cross", parents |-> ps, children |-> cs] : ps \in CrossInputs, cs \in CrossInputs}
    \cup {[kind |-> "replicates", replications |-> rs] : rs \in SeqsOf(ReplicateInputs, 1, MaxStages)}
    \cup {[kind |-> "demo", t1 |-> ts[1], t2 |-> ts[2], r1 |-> r1, r2 |-> r2] :
            ts \in {<<Tf_saturation(2), Tf_hue(60)>>, <<Tf_tx(20), Tf_s(2)>>},
            r1 \in DemoReplicateInputs, r2 \in DemoReplicateInputs}
    \cup {[kind |-> "path", transforms |-> p] : p \in SeqsOf(EntryInputs, 0, MaxPath)}
    \cup {[kind |-> "point", t |-> t, v |-> v] : t \in PivotInputs, v \in PointInputs}
    \cup {[kind |-> "record", transform |-> t, source |-> src] :
            t \in EntryInputs, src \in {Primitive("Cube"), Dynamic(0)}}
    \cup {[kind |-> "absent", transforms |-> a.transforms, replaced |-> a.replaced] :
            a \in {a \in AbsentInputs :
                    \A i \in a.replaced : i = 0 \/ (i <= Len(a.transforms) /\ ~a.transforms[i].some)}}
    \cup {[kind |-> "optional", items |-> items, given |-> t] :
            items \in {"t, None", "None, t", "None"}, t \in TfInputs}
    \cup {[kind |-> "rotation", axis |-> axis, angle |-> a, point |-> v] :
            axis \in {"x", "y", "z"}, a \in SignedAngles, v \in PointInputs}

\* The engine is idle in TfSpec.
EngineIdle ==
    /\ phase = "build"
    /\ rule = Rule_new
    /\ rules = <<>>
    /\ pc = "idle"
    /\ last = NotCalled
    /\ nextRc = 1
    /\ emitted = <<>>
    /\ calls = <<>>
    /\ pushLog = <<>>
    /\ steps = 0

TfInit ==
    /\ EngineIdle
    /\ op = "none"
    /\ args \in ArgsInputs
    /\ result = <<>>
    /\ meshes = CustomMeshes
    /\ export = NotExporting
    /\ system = NotCompiling

Applied(name, value) ==
    /\ op = "none"
    /\ op' = name
    /\ result' = value
    /\ UNCHANGED <<phase, rule, rules, pc, last, nextRc, emitted, calls, pushLog, steps, args, meshes, export, system>>

\* a.cons(b).cons(c), a.cons(b.cons(c)), and a composed with the default.
Cons ==
    /\ args.kind = "cons"
    /\ Applied("cons",
            [left |-> Transform_cons(Transform_cons(args.a, args.b), args.c),
             right |-> Transform_cons(args.a, Transform_cons(args.b, args.c)),
             default_first |-> Transform_cons(Transform_default, args.a),
             default_last |-> Transform_cons(args.a, Transform_default),
             pair |-> Transform_cons(args.a, args.b)])

\* Transform::cross(parents, children)
Cross ==
    /\ args.kind = "cross"
    /\ Applied("cross", Transform_cross(args.parents, args.children))

\* vec![Replicate::n(..), ...].into()
Replications ==
    /\ args.kind = "replicates"
    /\ Applied("replicates", IntoTransformArgument(ArgReplicates(args.replications)))

\* The rules Rule::new().push(tf![t1, t2, r1, r2], cube()) and
\* Rule::new().push(vec![Replicate::n(1, vec![t1, t2]), r1, r2], cube()).
Demo ==
    /\ args.kind = "demo"
    /\ Applied("demo",
            [macro |-> Rule_push(Rule_new,
                                 IntoTransformArgument(ArgTf(<<ArgTransform(args.t1),
                                                              ArgTransform(args.t2),
                                                              args.r1, args.r2>>)),
                                 cube, 1).invocations,
             plain |-> Rule_push(Rule_new,
                                 IntoTransformArgument(ArgReplicates(
                                    <<ArgReplicate(1, ArgVec(<<args.t1, args.t2>>)),
                                      args.r1, args.r2>>)),
                                 cube, 1).invocations])

\* The OutputMesh of a cube reached through the entries args.transforms, its
\* color and its vertices.
Leaf ==
    /\ args.kind = "path"
    /\ LET mesh == OutputMesh(Accumulate_path(args.transforms), Primitive("Cube"), <<>>, <<>>)
       IN  Applied("leaf", [mesh |-> mesh,
                            color |-> OutputMesh_color(mesh),
                            vertices |-> OutputMesh_vertices(mesh)])

\* t.apply_to(v)
Apply ==
    /\ args.kind = "point"
    /\ Applied("apply", Transform_apply_to(args.t, args.v))

\* The rotation by a about an axis and the rotation by -a, composed in both
\* orders and applied one after the other, and the rotation by 0.
Inverse ==
    /\ args.kind = "rotation"
    /\ LET there == Tf_r(args.axis, args.angle)
           back == Tf_r(args.axis, -args.angle)
       IN  Applied("inverse",
                [there_back |-> Transform_apply_to(Transform_cons(there, back), args.point),
                 back_there |-> Transform_apply_to(Transform_cons(back, there), args.point),
                 in_turn |-> Transform_apply_to(back, Transform_apply_to(there, args.point)),
                 moved |-> Transform_apply_to(there, args.point),
                 zero |-> Tf_r(args.axis, 0)])

\* The vertices, normals and faces of the OutputMesh of a transform and a
\* source: the cube or the user's mesh.
Fields ==
    /\ args.kind = "record"
    /\ LET mesh == OutputMesh(args.transform, args.source, <<>>, <<>>)
       IN  Applied("fields", [vertices |-> OutputMesh_vertices(mesh),
                              normals |-> OutputMesh_normals(mesh),
                              faces |-> OutputMesh_faces(mesh)])

\* The mesh emitted at the end of a path of invocation entries, and the mesh
\* emitted when the absent transforms at the replaced positions are
\* Some(Transform::default()) instead.
Absent ==
    /\ args.kind = "absent"
    /\ LET present == [i \in 1..Len(args.transforms) |->
                          IF i \in args.replaced THEN Some(Transform_default)
                          ELSE args.transforms[i]]
           root == IF 0 \in args.replaced THEN Some(Transform_default) ELSE None
           Emitted(first, transforms) ==
               LET mesh == OutputMesh(Accumulate_from(first, transforms), Dynamic(0), <<>>, <<>>)
               IN  [color |-> OutputMesh_color(mesh),
                    vertices |-> OutputMesh_vertices(mesh),
                    normals |-> OutputMesh_normals(mesh)]
       IN  Applied("absent", [absent |-> Emitted(None, args.transforms),
                              present |-> Emitted(root, present)])

\* Rule::new().push(tf![t, None], cube()), Rule::new().push(tf![None, t],
\* cube()) and Rule::new().push(None, cube()).
Optional ==
    /\ args.kind = "optional"
    /\ LET arg == CASE args.items = "t, None" -> ArgTf(<<ArgTransform(args.given), ArgNone>>)
                     [] args.items = "None, t" -> ArgTf(<<ArgNone, ArgTransform(args.given)>>)
                     [] args.items = "None" -> ArgNone
       IN  Applied("optional", [converted |-> IntoTransformArgument(arg),
                                rule |-> Rule_push(Rule_new, IntoTransformArgument(arg), cube, 1).invocations])

TfNext ==
    Cons \/ Cross \/ Replications \/ Demo \/ Leaf \/ Apply \/ Inverse \/ Fields \/ Absent \/ Optional

TfSpec == TfInit /\ [][TfNext]_vars

----------------------------------------------------------------------------
(* The export: write_meshes and render_obj (src/src/export.rs).  A write is
   one step; every write, and the creation of the material file, may fail.
   A failed write is taken to write nothing.  What a write appends to a sink
   is kept as a record: the kind of the line (or of the piece of an f line),
   its numbers, and (ghost) the number of the mesh it was written for. *)

\* Result<(), ExportError>, and Running while the call has not returned.
Running == [tag |-> "Running", error |-> "none"]
Ok == [tag |-> "Ok", error |-> "none"]
Err(error) == [tag |-> "Err", error |-> error]

ExportConfig(grouping, export_colors) ==
    [grouping |-> grouping, export_colors |-> export_colors]

\* color.into_format::<u8>(): a component (sixtieths) as a byte.
Rgb_u8(c) ==
    LET b == (c * 255 + 30) \div 60
    IN  IF b < 0 THEN 0 ELSE IF b > 255 THEN 255 ELSE b

\* color_hex, as the three bytes the text is formatted from.
color_hex(color) == <<Rgb_u8(color.red), Rgb_u8(color.green), Rgb_u8(color.blue)>>

Chunk(kind, mesh, data) == [kind |-> kind, mesh |-> mesh, data |-> data]

\* The locals of write_meshes at its entry.
write_meshes_entry(config, input) ==
    [pc |-> "create", config |-> config, input |-> input, pulled |-> 0,
     sink |-> <<>>, mtl_file |-> FALSE, mtl |-> <<>>,
     vertex_offset |-> 0, normal_offset |-> 0, vertex_count |-> 0, normal_count |-> 0,
     i |-> 0, k |-> 0, ret |-> Running, lib_ret |-> Running, failure |-> None]

\* The mesh the loop of write_meshes is at.
Cur(e) == e.input[e.pulled]

\* write!(&mut sink, ...) and write!(&mut material_sink, ...)
Write_obj(e, ok, kind, data) ==
    IF ok THEN [e EXCEPT !.sink = Append(@, Chunk(kind, e.pulled, data))] ELSE e

Write_mtl(e, ok, kind, data) ==
    IF ok THEN [e EXCEPT !.mtl = Append(@, Chunk(kind, e.pulled, data))] ELSE e

\* A mutant of try_write_obj: the error is dropped and the export goes on.
try_write_obj_swallow(e, ok) == e

\* try_write_obj!
try_write_obj(e, ok) ==
    IF ok THEN e ELSE [e EXCEPT !.ret = Err("ObjWriteError"), !.pc = "done"]

\* try_write_mtl!
try_write_mtl(e, ok) ==
    IF ok THEN e ELSE [e EXCEPT !.ret = Err("MtlWriteError"), !.pc = "done"]

\* Ghost: the sink a failed call was made on and the kind of the write.
Failed(e, ok, sink, what) ==
    IF ok THEN e ELSE [e EXCEPT !.failure = Some([sink |-> sink, what |-> what, at |-> e.pulled])]

\* next, unless the macro returned.
Then(e, next) == IF e.ret = Running THEN next ELSE e

\* The end of render_obj and of the loop body of write_meshes.
NextMesh(e) ==
    [e EXCEPT !.normal_offset = @ + e.normal_count,
              !.vertex_offset = @ + e.vertex_count,
              !.pc = "pull"]

\* for face in output_mesh.faces(), from face i on.
EnterF(e, i) ==
    IF i <= Len(OutputMesh_faces(Cur(e)))
    THEN [e EXCEPT !.pc = "f", !.i = i]
    ELSE NextMesh(e)

\* if let Some(normals) = output_mesh.normals() { for normal in normals
EnterVN(e) ==
    LET normals == OutputMesh_normals(Cur(e))
    IN  IF normals.some /\ normals.val # <<>>
        THEN [e EXCEPT !.pc = "vn", !.i = 1]
        ELSE EnterF(e, 1)

\* for vertex in output_mesh.vertices()
EnterV(e) ==
    IF OutputMesh_vertices(Cur(e)) # <<>>
    THEN [e EXCEPT !.pc = "v", !.i = 1]
    ELSE EnterVN(e)

\* if let Some(mut material_sink) = material_sink
EnterMaterial(e) == IF e.mtl_file THEN [e EXCEPT !.pc = "usemtl"] ELSE EnterV(e)

\* A mutant of write_face_vertex: the local indices are written as they are.
write_face_vertex_local(vertex_index, vertex_offset, normal_offset, has_normals) ==
    IF has_normals
    THEN <<vertex_index, vertex_index>>
    ELSE <<vertex_index>>

\* The numbers write_face_vertex formats: " {}//{}" with normals, " {}" without.
write_face_vertex(vertex_index, vertex_offset, normal_offset, has_normals) ==
    IF has_normals
    THEN <<vertex_index + vertex_offset, vertex_index + normal_offset>>
    ELSE <<vertex_index + vertex_offset>>

\* crate::write_meshes: export::write_meshes(config, meshes, sink)?; Ok(())
lib_write_meshes(ret) == IF ret.tag = "Err" THEN Err([Export |-> ret.error]) ELSE Ok

\* Longest input of write_meshes.
MaxMeshes == 2

ConfigInputs ==
    {ExportConfig(g, c) : g \in {"AllTogether", "Individual", "ByColor"},
                          c \in {None, Some("colors.mtl")}}

\* The OutputMesh records exported: a cube and the user's mesh, which has
\* normals.
MeshInputs ==
    {OutputMesh(None, Primitive("Cube"), <<>>, <<>>),
     OutputMesh(Some(Tf_tx(80)), Dynamic(0), <<>>, <<>>)}

ExportInit ==
    /\ EngineIdle
    /\ op = "none"
    /\ args = <<>>
    /\ result = <<>>
    /\ meshes = CustomMeshes
    /\ export \in {write_meshes_entry(c, in) :
                        c \in ConfigInputs, in \in SeqsOf(MeshInputs, 0, MaxMeshes)}
    /\ system = NotCompiling

ExportFrame ==
    UNCHANGED <<phase, rule, rules, pc, last, nextRc, emitted, calls, pushLog, steps,
                op, args, result, meshes, system>>

\* let mtl_file = try_write_mtl!(File::create(mtl_filename))
CreateMtl ==
    /\ export.pc = "create"
    /\ IF export.config.export_colors.some
       THEN \E ok \in BOOLEAN :
                LET created == try_write_mtl([export EXCEPT !.mtl_file = ok], ok)
                IN  export' = Failed(Then(created, [created EXCEPT !.pc = "mtllib"]),
                                     ok, "mtl", "create")
       ELSE export' = [export EXCEPT !.pc = "pull"]
    /\ ExportFrame

\* try_write_obj!(write!(&mut sink, "mtllib {}\n", mtl_filename))
WriteMtllib ==
    /\ export.pc = "mtllib"
    /\ \E ok \in BOOLEAN :
        LET written == try_write_obj(Write_obj(export, ok, "mtllib", <<>>), ok)
        IN  export' = Failed(Then(written, [written EXCEPT !.pc = "pull"]), ok, "obj", "mtllib")
    /\ ExportFrame

\* for mesh in meshes: the next mesh and its counts, or Ok(()) at the end.
Pull ==
    /\ export.pc = "pull"
    /\ export' =
        IF export.pulled < Len(export.input)
        THEN LET mesh == export.input[export.pulled + 1]
                 normals == OutputMesh_mesh(mesh).normals
             IN  [export EXCEPT !.pulled = @ + 1,
                                !.vertex_count = Len(OutputMesh_mesh(mesh).vertices),
                                !.normal_count = IF normals.some THEN Len(normals.val) ELSE 0,
                                !.pc = "group"]
        ELSE [export EXCEPT !.ret = Ok, !.pc = "done"]
    /\ ExportFrame

\* match config.grouping
Group ==
    /\ export.pc = "group"
    /\ IF export.config.grouping = "AllTogether"
       THEN export' = EnterMaterial(export)
       ELSE \E ok \in BOOLEAN :
                LET name == IF export.config.grouping = "Individual"
                            THEN <<export.vertex_offset>>
                            ELSE color_hex(OutputMesh_color(Cur(export)))
                    written == try_write_obj(Write_obj(export, ok, "g", name), ok)
                IN  export' = Failed(Then(written, EnterMaterial(written)), ok, "obj", "g")
    /\ ExportFrame

\* try_write_obj!(write!(&mut sink, "usemtl {}\n", color_hex))
Usemtl ==
    /\ export.pc = "usemtl"
    /\ \E ok \in BOOLEAN :
        LET written == try_write_obj(
                          Write_obj(export, ok, "usemtl", color_hex(OutputMesh_color(Cur(export)))), ok)
        IN  export' = Failed(Then(written, [written EXCEPT !.pc = "newmtl"]), ok, "obj", "usemtl")
    /\ ExportFrame

\* try_write_mtl!(write!(&mut material_sink, "newmtl {}\nKd {} {} {}\nillum 0\n", ...))
Newmtl ==
    /\ export.pc = "newmtl"
    /\ \E ok \in BOOLEAN :
        LET color == OutputMesh_color(Cur(export))
            written == try_write_mtl(
                          Write_mtl(export, ok, "newmtl",
                                    color_hex(color) \o <<color.red, color.green, color.blue>>), ok)
        IN  export' = Failed(Then(written, EnterV(written)), ok, "mtl", "newmtl")
    /\ ExportFrame

\* try_write_obj!(write!(&mut sink, "v {} {} {}\n", vertex.x, vertex.y, vertex.z))
WriteV ==
    /\ export.pc = "v"
    /\ \E ok \in BOOLEAN :
        LET vs == OutputMesh_vertices(Cur(export))
            v == vs[export.i]
            written == try_write_obj(Write_obj(export, ok, "v", <<v[1], v[2], v[3]>>), ok)
        IN  export' = Failed(Then(written, IF export.i < Len(vs)
                                           THEN [written EXCEPT !.i = @ + 1]
                                           ELSE EnterVN(written)),
                             ok, "obj", "v")
    /\ ExportFrame

\* try_write_obj!(write!(&mut sink, "vn {} {} {}\n", normal.x, normal.y, normal.z))
WriteVN ==
    /\ export.pc = "vn"
    /\ \E ok \in BOOLEAN :
        LET ns == OutputMesh_normals(Cur(export)).val
            n == ns[export.i]
            written == try_write_obj(Write_obj(export, ok, "vn", <<n[1], n[2], n[3]>>), ok)
        IN  export' = Failed(Then(written, IF export.i < Len(ns)
                                           THEN [written EXCEPT !.i = @ + 1]
                                           ELSE EnterF(written, 1)),
                             ok, "obj", "vn")
    /\ ExportFrame

\* try_write_obj!(write!(&mut sink, "f "))
WriteF ==
    /\ export.pc = "f"
    /\ \E ok \in BOOLEAN :
        LET face == OutputMesh_faces(Cur(export))[export.i]
            written == try_write_obj(Write_obj(export, ok, "f", <<>>), ok)
        IN  export' = Failed(Then(written, IF face # <<>>
                                           THEN [written EXCEPT !.pc = "index", !.k = 1]
                                           ELSE [written EXCEPT !.pc = "newline"]),
                             ok, "obj", "f")
    /\ ExportFrame

\* write_face_vertex(&mut sink, vertex_index)?: the write goes to the
\* object sink, through try_write_mtl!.
WriteIndex ==
    /\ export.pc = "index"
    /\ \E ok \in BOOLEAN :
        LET face == OutputMesh_faces(Cur(export))[export.i]
            data == write_face_vertex(face[export.k], export.vertex_offset, export.normal_offset,
                                      OutputMesh_normals(Cur(export)).some)
            written == try_write_mtl(Write_obj(export, ok, "index", data), ok)
        IN  export' = Failed(Then(written, IF export.k < Len(face)
                                           THEN [written EXCEPT !.k = @ + 1]
                                           ELSE [written EXCEPT !.pc = "newline"]),
                             ok, "obj", "index")
    /\ ExportFrame

\* try_write_obj!(write!(&mut sink, "\n"))
WriteNewline ==
    /\ export.pc = "newline"
    /\ \E ok \in BOOLEAN :
        LET written == try_write_obj(Write_obj(export, ok, "newline", <<>>), ok)
        IN  export' = Failed(Then(written, EnterF(written, export.i + 1)), ok, "obj", "newline")
    /\ ExportFrame

\* export::write_meshes has returned: crate::write_meshes returns.
Return ==
    /\ export.pc = "done"
    /\ export' = [export EXCEPT !.pc = "returned", !.lib_ret = lib_write_meshes(export.ret)]
    /\ ExportFrame

ExportNext ==
    \/ CreateMtl
    \/ WriteMtllib
    \/ Pull
    \/ Group
    \/ Usemtl
    \/ Newmtl
    \/ WriteV
    \/ WriteVN
    \/ WriteF
    \/ WriteIndex
    \/ WriteNewline
    \/ Return

ExportSpec == ExportInit /\ [][ExportNext]_vars

----------------------------------------------------------------------------
(* The batch expansion: compile (src/src/system.rs).  Parameters is modelled
   by its depth_budget; compile carries the transform along untouched.  A
   Constant's mesh is modelled by a ghost tag: the level of the string it
   was produced into and its position in that string. *)

MaxBudget == 2
MaxString == 2

Parameters(depth_budget) == [depth_budget |-> depth_budget]

\* Character::Constant and Character::Producer
Constant(mesh) == [tag |-> "Constant", mesh |-> mesh]
Character_Producer(parameters, producer) ==
    [tag |-> "Producer", parameters |-> parameters, producer |-> producer]

\* The producers of the model return one character per item: "constant", a
\* Constant; "self", the producer itself with the parameters it was passed
\* (as Stack returns Stack); "less", itself with a budget lowered by one;
\* "leaf", with the parameters it was passed, a producer of one Constant
\* (as Stack returns Cube).
Producer_produce(self, parameters) ==
    [j \in 1..Len(self) |->
        CASE self[j] = "constant" -> Constant(<<>>)
          [] self[j] = "self" -> Character_Producer(parameters, self)
          [] self[j] = "less" ->
                Character_Producer(
                    Parameters(IF parameters.depth_budget > 0
                               THEN parameters.depth_budget - 1 ELSE 0), self)
          [] self[j] = "leaf" -> Character_Producer(parameters, <<"constant">>)]

Stack == <<"leaf", "self">>

\* (ghost) The characters with their Constants tagged <<level, position>>,
\* offset being the length of the level's string before they are appended.
Tagged(characters, level, offset) ==
    [j \in 1..Len(characters) |->
        IF characters[j].tag = "Constant"
        THEN Constant(<<level, offset + j>>)
        ELSE characters[j]]

\* The number of Constants among the characters.
RECURSIVE Constants(_)
Constants(characters) ==
    IF characters = <<>>
    THEN 0
    ELSE (IF Head(characters).tag = "Constant" THEN 1 ELSE 0) + Constants(Tail(characters))

\* A mutant of Lowered: the budget is passed on as it is.
Lowered_kept(parameters) == parameters

\* Parameters { depth_budget: parameters.depth_budget - 1, ..parameters }
Lowered(parameters) == Parameters(parameters.depth_budget - 1)

\* compile(parameters, producer) at its first statement.  Ghost fields:
\* level, the number of strings the while loop took up; calls, the produce
\* calls in order, each with the budget of the character expanded (None for
\* the call on the root producer) and the budget passed; dropped, the
\* budgets of the Producer characters the match let go; constants, the
\* number of Constants produced.
compile_entry(parameters, producer) ==
    [pc |-> "entry", parameters |-> parameters, producer |-> producer,
     meshes |-> <<>>, string |-> <<>>, next_level |-> <<>>, i |-> 0, ret |-> None,
     level |-> 0, calls |-> <<>>, dropped |-> <<>>, constants |-> 0]

SystemInit ==
    /\ EngineIdle
    /\ op = "none"
    /\ args = <<>>
    /\ result = <<>>
    /\ meshes = CustomMeshes
    /\ export = NotExporting
    /\ system \in {compile_entry(Parameters(b), producer) :
                        b \in 0..MaxBudget,
                        producer \in SeqsOf({"constant", "self", "less", "leaf"}, 0, MaxString)}

SystemFrame ==
    UNCHANGED <<phase, rule, rules, pc, last, nextRc, emitted, calls, pushLog, steps,
                op, args, result, meshes, export>>

\* if parameters.depth_budget == 0 { return meshes; }
\* let mut string = producer.produce(parameters);
Enter ==
    /\ system.pc = "entry"
    /\ system' =
        IF system.parameters.depth_budget = 0
        THEN [system EXCEPT !.pc = "done"]
        ELSE LET produced == Producer_produce(system.producer, system.parameters)
             IN  [system EXCEPT !.string = Tagged(produced, 1, 0),
                                !.calls = Append(@, [character |-> None,
                                                     passed |-> system.parameters.depth_budget]),
                                !.constants = @ + Constants(produced),
                                !.pc = "while"]
    /\ SystemFrame

\* while !string.is_empty() { let mut next_level = vec![];
While ==
    /\ system.pc = "while"
    /\ system' =
        IF system.string = <<>>
        THEN [system EXCEPT !.pc = "done"]
        ELSE [system EXCEPT !.next_level = <<>>, !.i = 1, !.level = @ + 1, !.pc = "for"]
    /\ SystemFrame

\* The character the for loop is at.
Character == system.string[system.i]

InFor == system.pc = "for" /\ system.i <= Len(system.string)

\* Character::Constant(mesh) => meshes.push(mesh)
Collect ==
    /\ InFor
    /\ Character.tag = "Constant"
    /\ system' = [system EXCEPT !.meshes = Append(@, Character.mesh), !.i = @ + 1]
    /\ SystemFrame

\* Character::Producer { parameters, producer } if parameters.depth_budget > 0 =>
\*     next_level.append(&mut producer.produce(Parameters { .. }))
Expand ==
    /\ InFor
    /\ Character.tag = "Producer"
    /\ Character.parameters.depth_budget > 0
    /\ LET passed == Lowered(Character.parameters)
           produced == Producer_produce(Character.producer, passed)
       IN  system' = [system EXCEPT
                        !.next_level = @ \o Tagged(produced, system.level + 1, Len(@)),
                        !.calls = Append(@, [character |-> Some(Character.parameters.depth_budget),
                                             passed |-> passed.depth_budget]),
                        !.constants = @ + Constants(produced),
                        !.i = @ + 1]
    /\ SystemFrame

\* _ => ()
Drop ==
    /\ InFor
    /\ Character.tag = "Producer"
    /\ ~(Character.parameters.depth_budget > 0)
    /\ system' = [system EXCEPT !.dropped = Append(@, Character.parameters.depth_budget),
                                !.i = @ + 1]
    /\ SystemFrame

\* string = next_level; }
EndFor ==
    /\ system.pc = "for"
    /\ system.i > Len(system.string)
    /\ system' = [system EXCEPT !.string = system.next_level, !.next_level = <<>>, !.pc = "while"]
    /\ SystemFrame

\* meshes
Returned ==
    /\ system.pc = "done"
    /\ system' = [system EXCEPT !.ret = Some(system.meshes), !.pc = "returned"]
    /\ SystemFrame

SystemNext == Enter \/ While \/ Collect \/ Expand \/ Drop \/ EndFor \/ Returned

\* compile is sequential code: a call that can take a step takes it.
SystemSpec == SystemInit /\ [][SystemNext]_vars /\ WF_vars(SystemNext)

----------------------------------------------------------------------------
(* Reference definitions the properties are stated with. *)

\* The root of the rule graph, as generate() wraps it.
RootNode == RuleInvocations(0, ObjRule(rule))

\* The traversal is complete: every entry was popped.
Drained == phase = "iter" /\ pc = "idle" /\ rules = <<>>

\* The transforms of a path composed root first, the ancestor on the left:
\* ((t1.cons(t2)).cons(t3))...; None for a path without transforms.
RECURSIVE ConsLeft(_)
ConsLeft(tfs) ==
    IF Len(tfs) = 1
    THEN tfs[1]
    ELSE Transform_cons(ConsLeft(Front(tfs)), tfs[Len(tfs)])

Composition(tfs) == IF tfs = <<>> THEN None ELSE Some(ConsLeft(tfs))

\* t composed with itself k times (k >= 1).
RECURSIVE Power(_, _)
Power(t, k) == IF k = 1 THEN t ELSE Transform_cons(t, Power(t, k - 1))

\* The invocation entries along `path`, from the node `node` down, may carry
\* the transforms tfs (a randomized producer has several possible lists).
RECURSIVE OnPath(_, _, _)
OnPath(node, path, tfs) ==
    IF path = <<>>
    THEN tfs = <<>>
    ELSE /\ node.tag = "Invocations"
         /\ \E r \in to_rule(node.obj, 0) :
              /\ Head(path) \in 1..Len(r.invocations)
              /\ LET inv == r.invocations[Head(path)]
                 IN  IF inv.transform.some
                     THEN /\ tfs # <<>>
                          /\ Head(tfs) = inv.transform.val
                          /\ OnPath(inv.rule, Tail(path), Tail(tfs))
                     ELSE OnPath(inv.rule, Tail(path), tfs)

\* The root-to-mesh paths of the tree a finite rule graph expands to, each
\* with the mesh it ends in.  (The shape of the tree does not depend on
\* what a randomized producer chooses.)
RECURSIVE Leaves(_, _)
Leaves(node, path) ==
    IF node.tag = "Mesh"
    THEN {[path |-> path, source |-> node.source]}
    ELSE LET inv == (CHOOSE r \in to_rule(node.obj, 0) : TRUE).invocations
         IN  UNION {Leaves(inv[i].rule, Append(path, i)) : i \in 1..Len(inv)}

\* The first position at which two paths differ (0: one is a prefix of the other).
FirstDiff(p, q) ==
    LET n == IF Len(p) < Len(q) THEN Len(p) ELSE Len(q)
        d == {c \in 1..n : p[c] # q[c]}
    IN  IF d = {} THEN 0 ELSE CHOOSE c \in d : \A e \in d : c <= e

\* The root rule is one invocation of an always-recursing producer.
AlwaysRecursing ==
    /\ Len(pushLog) = 1
    /\ pushLog[1].child.kind = "Forever"
    /\ Len(pushLog[1].ta.transforms) = 1

----------------------------------------------------------------------------
(* The properties *)

\* C1: on the rule graph of a producer that always recurses (one mesh
\* invocation and one invocation of itself per expansion), every next() call
\* returns a mesh after finitely many pop/expand steps, wherever the
\* self-invocation stands: no call is still running after the MaxSteps steps
\* it is followed for, and none returns None.
C1_NextReturnsMesh ==
    (phase = "iter" /\ AlwaysRecursing) =>
        /\ pc = "running" => steps < MaxSteps
        /\ last # None

\* C1 for the producer whose self-invocation is declared first: every call
\* returns a mesh within four steps, and the worklist stays short.
C1_SelfFirstReturns ==
    (phase = "iter" /\ AlwaysRecursing /\ ~pushLog[1].child.selfLast) =>
        /\ steps <= 4
        /\ Len(rules) <= 2
        /\ last # None

\* C2: producers are expanded only on demand.  to_rule is called only inside
\* next(), on the entry just popped (so never by Rule::push or generate), and
\* a next() call that returns a mesh calls no producer and leaves the
\* entries below the mesh as they are.
C2_ExpandedOnDemand ==
    [][ /\ calls' # calls =>
            /\ pc = "running"
            /\ rules # <<>>
            /\ Top(rules).rule.tag = "Invocations"
            /\ calls' = Append(calls, Call(Top(rules)))
        /\ (pc = "running" /\ pc' = "idle" /\ last'.some) =>
            /\ calls' = calls
            /\ rules' = Front(rules)
            /\ last'.val.path = Top(rules).path
      ]_vars

\* C2's case: a mesh was returned while producers are pending, unexpanded.
C2_Witness ==
    /\ pc = "idle"
    /\ last.some
    /\ calls # <<>>
    /\ \E i \in 1..Len(rules) : rules[i].rule.tag = "Invocations"

\* What C3 states of a complete traversal of a finite rule graph: every
\* invocation entry of the root rule was expanded by one call of its own, so
\* an allocation shared by N entries was called N times.
C3_OncePerBranch ==
    (Drained /\ Finite) =>
        /\ \A i \in 1..Len(rule) :
             Cardinality({j \in 1..Len(calls) :
                            calls[j].path = <<i>> /\ calls[j].rc = rule[i].rule.rc}) = 1
        /\ \A i \in 1..Len(rule) :
             Cardinality({j \in 1..Len(calls) : calls[j].rc = rule[i].rule.rc})
               = Cardinality({k \in 1..Len(rule) : rule[k].rule.rc = rule[i].rule.rc})

\* C3: producer expansion is never memoized.  Every step that pops a
\* producer entry makes exactly one to_rule call, for that entry; no entry is
\* expanded before it is popped or twice; and over a full traversal a
\* producer pushed with N branches is called exactly N times, once per branch.
C3_NeverMemoized ==
    [][ /\ (pc = "running" /\ rules # <<>> /\ Top(rules).rule.tag = "Invocations") =>
            calls' = Append(calls, Call(Top(rules)))
        /\ \A j \in 1..Len(calls') :
            /\ \A k \in 1..Len(calls') : calls'[k].path = calls'[j].path => k = j
            /\ \A i \in 1..Len(rules') : rules'[i].path # calls'[j].path
        /\ C3_OncePerBranch'
      ]_vars

\* C3's case: a randomized producer pushed with two branches (one shared
\* allocation) was called twice in a complete traversal.
C3_Witness ==
    /\ Drained
    /\ \E j, k \in 1..Len(calls) :
        /\ j # k
        /\ calls[j].rc = calls[k].rc
        /\ calls[j].obj.kind = "RandCube"

\* The records C4 speaks of: the pending entries and the mesh just emitted.
C4_Records ==
    {rules[i] : i \in 1..Len(rules)} \cup (IF last.some THEN {last.val} ELSE {})

\* C4: every emitted OutputMesh and every pending worklist entry carries the
\* composition, root first and the ancestor on the left, of the transforms of
\* the invocation entries on its own path; None when there are none.
C4_RootToLeafComposition ==
    \A e \in C4_Records :
        /\ OnPath(RootNode, e.path, e.tfs)
        /\ e.transform = Composition(e.tfs)

\* C4's case: a mesh emitted under two transforms that do not commute.
C4_Witness ==
    /\ last.some
    /\ Len(last.val.tfs) >= 2
    /\ Transform_cons(last.val.tfs[1], last.val.tfs[2])
         # Transform_cons(last.val.tfs[2], last.val.tfs[1])

\* The root rule is one push of a mesh under k >= 1 transforms.
C5_SharedMesh ==
    /\ Len(pushLog) = 1
    /\ pushLog[1].child \in {cube, sphere}
    /\ pushLog[1].ta.transforms # <<>>

\* C5: a full traversal of a finite rule graph emits exactly one OutputMesh
\* per root-to-mesh path of the expanded tree, none twice and none skipped;
\* a rule that pushes one shared mesh under k transforms yields k records,
\* each with its own transform and the same mesh.
C5_OnePerLeaf ==
    (phase = "iter" /\ Finite) =>
        LET leaves == Leaves(RootNode, <<>>) IN
        /\ \A i, j \in 1..Len(emitted) : emitted[i].path = emitted[j].path => i = j
        /\ {emitted[i] : i \in 1..Len(emitted)} \subseteq leaves
        /\ Drained => Len(emitted) = Cardinality(leaves)
        /\ C5_SharedMesh =>
            /\ Drained => Len(emitted) = Len(pushLog[1].ta.transforms)
            /\ \A i, j \in 1..Len(emitted) : emitted[i].source = emitted[j].source
            /\ last.some =>
                last.val.transform = Some(pushLog[1].ta.transforms[last.val.path[1]])

\* C5's case: one cube pushed under three transforms, fully traversed.
C5_Witness ==
    /\ Drained
    /\ C5_SharedMesh
    /\ Len(pushLog[1].ta.transforms) = 3
    /\ Len(emitted) = 3

\* C6: emission is LIFO and depth-first.  Of two emitted meshes, the earlier
\* one lies, where their paths part, under the later-declared entry; and the
\* meshes of one entry's subtree are emitted contiguously.
C6_LifoDepthFirst ==
    \A j \in 1..Len(emitted) : \A i \in 1..(j - 1) :
        LET p == emitted[i].path
            q == emitted[j].path
            c == FirstDiff(p, q)
        IN  /\ c # 0
            /\ p[c] > q[c]
            /\ \A m \in (i + 1)..(j - 1) :
                 SubSeq(emitted[m].path, 1, c - 1) = SubSeq(p, 1, c - 1)

\* C6's case: meshes of two entries of the root rule, one of them with a
\* subtree of several meshes.
C6_Witness ==
    /\ Len(emitted) >= 3
    /\ \E i, j \in 1..Len(emitted) :
        /\ i < j
        /\ emitted[i].path[1] = emitted[j].path[1]
    /\ \E i, j \in 1..Len(emitted) : emitted[i].path[1] # emitted[j].path[1]

\* C7: on a finite rule graph repeated next() calls reach the terminal
\* state.  next() returns None exactly when the worklist is empty; once it
\* has returned None every later call returns None again, calls no producer
\* and leaves the worklist empty; and the traversal gets there.
C7_Terminal ==
    /\ [][ /\ (pc = "running" /\ pc' = "idle" /\ last' = None) => rules = <<>>
           /\ (pc = "running" /\ rules = <<>>) => (pc' = "idle" /\ last' = None)
           /\ last = None => (last' = None /\ rules' = <<>> /\ calls' = calls)
         ]_vars
    /\ (phase = "iter" /\ Finite) ~> (last = None /\ rules = <<>>)

\* C7's case: after None was returned, a later next() call is running.
C7_Witness ==
    /\ last = None
    /\ pc = "running"
    /\ emitted # <<>>

\* The entries a push appended.
Appended(p) == SubSeq(p.after, Len(p.before) + 1, Len(p.after))

\* C8: Rule::push keeps the existing entries unchanged and in place and
\* appends after them one entry per transform, in order, for a single
\* transform or a non-empty set, and one entry without transform for an
\* empty set; all appended entries reference one new allocation of the child.
C8_PushAppends ==
    \A k \in 1..Len(pushLog) :
        LET p == pushLog[k]
            new == Appended(p)
        IN  /\ Len(p.after) >= Len(p.before)
            /\ SubSeq(p.after, 1, Len(p.before)) = p.before
            /\ IF p.ta.transforms # <<>>
               THEN /\ Len(new) = Len(p.ta.transforms)
                    /\ \A i \in 1..Len(new) : new[i].transform = Some(p.ta.transforms[i])
               ELSE /\ Len(new) = 1
                    /\ new[1].transform = None
            /\ \A i \in 1..Len(new) : new[i].rule = RuleInvocations(p.rc, p.child)
            /\ \A i \in 1..Len(p.before) : p.before[i].rule.rc # p.rc
            /\ p.rcAfter = p.rc + 1

\* C8's case: a set of several transforms pushed onto a rule that has entries.
C8_Witness ==
    \E k \in 1..Len(pushLog) :
        /\ pushLog[k].before # <<>>
        /\ Len(pushLog[k].ta.transforms) >= 2

\* C9: Replicate::n(n, t) converts to exactly n transforms, the k-th being t
\* composed with itself k times (no identity element); with a source set S it
\* converts to n*|S| transforms, the n stacks of each element of S contiguous
\* and in S's order.
C9_ReplicateStacks ==
    \A m \in 1..Len(pushLog) :
        LET p == pushLog[m] IN
        p.arg.kind = "Replicate" =>
            LET n == p.arg.n
                S == IF p.arg.source.kind = "Transform"
                     THEN <<p.arg.source.t>>
                     ELSE IntoTransformArgument(p.arg.source).transforms
            IN  /\ p.ta.tag = "Many"
                /\ Len(p.ta.transforms) = n * Len(S)
                /\ \A i \in 1..Len(S) : \A k \in 1..n :
                     /\ p.ta.transforms[(i - 1) * n + k] = Power(S[i], k)
                     /\ p.ta.transforms[(i - 1) * n + k] # Transform_default
                /\ p.arg.source = ArgTransform(Tf_ty(20)) =>
                     \A k \in 1..n : p.ta.transforms[k] = Tf_ty(20 * k)

\* C9's case: a replication of a single transform and one of a set.
C9_Witness ==
    /\ \E m \in 1..Len(pushLog) :
        /\ pushLog[m].arg.kind = "Replicate"
        /\ pushLog[m].arg.n = 3
        /\ pushLog[m].arg.source.kind = "Transform"
    /\ \E m \in 1..Len(pushLog) :
        /\ pushLog[m].arg.kind = "Replicate"
        /\ pushLog[m].arg.n >= 2
        /\ pushLog[m].arg.source.kind = "Replicate"

\* C10: for every n >= 0 and single transform t,
\* Rule::new().push(Replicate::n(n, t), child) holds exactly n invocation
\* entries, so that a traversal of that rule reaches child (calls its
\* to_rule) exactly n times.
C10_ReplicateInvocations ==
    \A m \in 1..Len(pushLog) :
        LET p == pushLog[m] IN
        (p.before = Rule_new /\ p.arg.kind = "Replicate" /\ p.arg.source.kind = "Transform") =>
            /\ Len(p.after) = p.arg.n
            /\ (Drained /\ Finite /\ rule = p.after) =>
                 Cardinality({j \in 1..Len(calls) : calls[j].rc = p.rc}) = p.arg.n

\* C10 for n >= 1.
C10_ReplicateInvocationsPositive ==
    \A m \in 1..Len(pushLog) :
        LET p == pushLog[m] IN
        (p.before = Rule_new /\ p.arg.kind = "Replicate" /\ p.arg.source.kind = "Transform"
            /\ p.arg.n >= 1) =>
            /\ Len(p.after) = p.arg.n
            /\ (Drained /\ Finite /\ rule = p.after) =>
                 Cardinality({j \in 1..Len(calls) : calls[j].rc = p.rc}) = p.arg.n

----------------------------------------------------------------------------
(* Properties of the transform algebra, checked under TfSpec. *)

\* The counts of a vector of replications, and their product.
Counts(replications) == [i \in 1..Len(replications) |-> replications[i].n]

RECURSIVE Product(_)
Product(ns) == IF ns = <<>> THEN 1 ELSE Head(ns) * Product(Tail(ns))

\* The in-order composition of one branch per stage: branch is[i] of stage i
\* is the is[i]-fold stacking of the stage's transform.
BranchComposition(replications, is) ==
    ConsLeft([i \in 1..Len(replications) |-> Power(replications[i].source.t, is[i])])

\* The branch choices of a vector of counts, the first stage varying slowest.
RECURSIVE Branches(_)
Branches(ns) ==
    IF ns = <<>>
    THEN << <<>> >>
    ELSE LET rest == Branches(Tail(ns))
             RECURSIVE From(_)
             From(i) == IF i > Head(ns)
                        THEN <<>>
                        ELSE [k \in 1..Len(rest) |-> <<i>> \o rest[k]] \o From(i + 1)
         IN  From(1)

\* C11: converting a vector of replications yields exactly n1*...*nm
\* transforms, for all counts, 0 included, and every order of the stages, each
\* being the in-order composition of one branch per stage.
C11_ProductOfCounts ==
    op = "replicates" =>
        LET branches == Branches(Counts(args.replications))
        IN  /\ Len(result.transforms) = Product(Counts(args.replications))
            /\ result.transforms =
                   [k \in 1..Len(branches) |-> BranchComposition(args.replications, branches[k])]

\* C11 for counts of at least one: the product and the compositions hold.
C11_ProductOfPositiveCounts ==
    (op = "replicates" /\ \A i \in 1..Len(args.replications) : args.replications[i].n >= 1)
        => C11_ProductOfCounts

\* C11: a stage of count 0 before a stage of positive count is dropped.
C11_EmptyStageDropped ==
    (/\ op = "replicates"
     /\ Len(args.replications) = 2
     /\ args.replications[1].n = 0)
        => result.transforms = IntoTransformArgument(args.replications[2]).transforms

C11_Witness ==
    /\ op = "replicates"
    /\ Counts(args.replications) = <<0, 2>>
    /\ Len(result.transforms) = 2

\* C12: Transform::cross(A, B) has length |A|*|B| and its element at 0-based
\* position i*|B|+j is A[i].cons(B[j]): the first list varies slowest and the
\* order of both lists is kept.
C12_CrossLayout ==
    op = "cross" =>
        LET A == args.parents
            B == args.children
        IN  /\ Len(result) = Len(A) * Len(B)
            /\ \A i \in 0..(Len(A) - 1) : \A j \in 0..(Len(B) - 1) :
                    result[i * Len(B) + j + 1] = Transform_cons(A[i + 1], B[j + 1])

C12_Witness ==
    /\ op = "cross"
    /\ Len(args.parents) = 2
    /\ Len(args.children) = 2
    /\ args.parents[1] # args.parents[2]
    /\ args.children[1] # args.children[2]
    /\ Len(result) = 4
    /\ result[2] # result[3]

\* C13: tf![t1, t2, R1, R2] and vec![Replicate::n(1, vec![t1, t2]), R1, R2]
\* convert to the same ordered list of transforms, so the rules pushing a cube
\* with them hold the same invocations in the same order.
C13_MacroEqualsPlain ==
    op = "demo" =>
        /\ IntoTransformArgument(ArgTf(<<ArgTransform(args.t1), ArgTransform(args.t2),
                                         args.r1, args.r2>>))
             = IntoTransformArgument(ArgReplicates(
                    <<ArgReplicate(1, ArgVec(<<args.t1, args.t2>>)), args.r1, args.r2>>))
        /\ result.macro = result.plain

\* C13 for replications of at least one branch: the two forms agree.
C13_MacroEqualsPlainPositive ==
    (op = "demo" /\ args.r1.n >= 1 /\ args.r2.n >= 1) => C13_MacroEqualsPlain

\* C13: with an empty R1 the macro form converts to no transform, and its rule
\* holds one invocation without a transform, while the plain form converts to
\* the branches of R2 alone.
C13_EmptyStageDiverges ==
    (op = "demo" /\ args.r1.n = 0 /\ args.r2.n >= 1) =>
        /\ result.macro = <<Invocation(None, RuleInvocations(1, cube))>>
        /\ Len(result.plain) = args.r2.n
        /\ \A i \in 1..Len(result.plain) :
                result.plain[i] = Invocation(Some(IntoTransformArgument(args.r2).transforms[i]),
                                            RuleInvocations(1, cube))

C13_Witness ==
    /\ op = "demo"
    /\ args.r1.n = 0
    /\ args.r2.n = 2
    /\ Len(result.macro) = 1
    /\ Len(result.plain) = 2

\* C14: cons is associative: a.cons(b).cons(c) and a.cons(b.cons(c)) have the
\* same spatial matrix and the same color operator (same Override/Delta tag,
\* same hue, saturation and value), for every mix of Override and Delta.
C14_ConsAssociative ==
    op = "cons" =>
        /\ result.left.spatial = result.right.spatial
        /\ result.left.color.tag = result.right.color.tag
        /\ result.left.color.hsv.hue = result.right.color.hsv.hue
        /\ result.left.color.hsv.saturation = result.right.color.hsv.saturation
        /\ result.left.color.hsv.value = result.right.color.hsv.value

C14_Witness ==
    /\ op = "cons"
    /\ args.a = Tf_hue(60)
    /\ args.b = Tf_color(Hsv(240, 2, 1))
    /\ args.c = Tf_value(3)
    /\ result.left.color = Override(Hsv(240, 2, 3))
    /\ result.right.color = Override(Hsv(240, 2, 3))

\* C14: cons is not commutative, in the spatial part or in the color part.
C14_NotCommutativeWitness ==
    /\ op = "cons"
    /\ args.a = Tf_tx(20)
    /\ args.b = Tf_s(2)
    /\ result.pair # Transform_cons(args.b, args.a)

\* C15: Transform::default() is neutral on both sides of cons, in the spatial
\* and in the color part, for transforms with an Override or a Delta color.
C15_DefaultNeutral ==
    op = "cons" =>
        /\ result.default_first.spatial = args.a.spatial
        /\ result.default_first.color = args.a.color
        /\ result.default_last.spatial = args.a.spatial
        /\ result.default_last.color = args.a.color

C15_Witness ==
    /\ op = "cons"
    /\ args.a = Tf_color(Hsv(240, 2, 1))
    /\ result.default_first = Tf_color(Hsv(240, 2, 1))
    /\ result.default_last = Tf_color(Hsv(240, 2, 1))

\* The color operators of the entries of a path, root first; an entry
\* without a transform has none.
RECURSIVE ColorOperators(_)
ColorOperators(transforms) ==
    IF transforms = <<>>
    THEN <<>>
    ELSE (IF Head(transforms).some THEN <<Head(transforms).val.color>> ELSE <<>>)
         \o ColorOperators(Tail(transforms))

\* The position of the last Override among ops, 0 if there is none.
LastOverride(ops) ==
    IF \E k \in 1..Len(ops) : ops[k].tag = "Override"
    THEN CHOOSE k \in 1..Len(ops) :
            /\ ops[k].tag = "Override"
            /\ \A j \in (k + 1)..Len(ops) : ops[j].tag = "Delta"
    ELSE 0

\* hsv with the operators ops[k], ops[k+1], ... applied as deltas in order:
\* the hue added, saturation and value multiplied.
RECURSIVE ApplyDeltas(_, _, _)
ApplyDeltas(hsv, ops, k) ==
    IF k > Len(ops)
    THEN hsv
    ELSE ApplyDeltas(Hsv(hsv.hue + ops[k].hsv.hue,
                         hsv.saturation * ops[k].hsv.saturation,
                         hsv.value * ops[k].hsv.value), ops, k + 1)

\* The color the operators ops resolve to on the base color base.
Resolved(base, ops) ==
    LET k == LastOverride(ops)
    IN  ApplyDeltas(IF k = 0 THEN base ELSE ops[k].hsv, ops, k + 1)

\* The entry changes no color: it has no transform or a transform of the
\* default color operator.
NoColorChange(entry) == ~entry.some \/ entry.val.color = ColorTransform_default

\* C16: outer.cons(descendant) has the color Override(c) of the descendant
\* for every outer operator, and a leaf reached through an Override(c) with no
\* color change after it resolves to exactly c, whatever precedes it.
C16_OverridePrecedence ==
    /\ (op = "cons" /\ args.b.color.tag = "Override") => result.pair.color = args.b.color
    /\ op = "leaf" =>
            \A k \in 1..Len(args.transforms) :
                (/\ args.transforms[k].some
                 /\ args.transforms[k].val.color.tag = "Override"
                 /\ \A j \in (k + 1)..Len(args.transforms) : NoColorChange(args.transforms[j]))
                    => /\ result.mesh.transform.val.color = args.transforms[k].val.color
                       /\ result.color = Rgb_from(args.transforms[k].val.color.hsv)

C16_Witness ==
    /\ op = "leaf"
    /\ args.transforms = <<Some(Tf_hue(60)), Some(Tf_color(Hsv(120, 1, 1))), Some(Tf_tx(80))>>
    /\ result.color = Rgb(0, 60, 0)

\* C16: an outer Override gives way to the descendant's.
C16_OverridesWitness ==
    /\ op = "cons"
    /\ args.a = Tf_color(Hsv(120, 1, 1))
    /\ args.b = Tf_color(Hsv(240, 2, 1))
    /\ result.pair.color = Override(Hsv(240, 2, 1))

\* The base color of Transform::get_color.
BaseColor == Hsv(0, 1, 1)

\* C17: the resolved color of a leaf is the color of the last Override on its
\* path (the base color if there is none) with each Delta after it applied in
\* path order; the Deltas before the last Override have no effect.
C17_LastOverrideThenDeltas ==
    op = "leaf" =>
        result.color = Rgb_from(Resolved(BaseColor, ColorOperators(args.transforms)))

C17_Witness ==
    /\ op = "leaf"
    /\ args.transforms = <<Some(Tf_hue(60)), Some(Tf_color(Hsv(240, 2, 1))), Some(Tf_saturation(2))>>
    /\ result.mesh.transform.val.color = Override(Hsv(240, 4, 1))
    /\ result.color = Rgb_from(Hsv(240, 4, 1))

\* White: saturation 0 and value 1.
White == Hsv(0, 0, 1)

\* C18: the resolved color is the accumulated color operator folded onto a
\* white base: a mesh reached with no color transform, or no transform at all,
\* is white, and a path of Deltas only resolves to white modified by them.
C18_WhiteBase ==
    (op = "leaf" /\ LastOverride(ColorOperators(args.transforms)) = 0) =>
        /\ result.color = Rgb_from(Resolved(White, ColorOperators(args.transforms)))
        /\ (\A k \in 1..Len(args.transforms) : NoColorChange(args.transforms[k]))
                => result.color = Rgb(60, 60, 60)

\* C18 on the base of the code: pure red, saturation 1 and value 1.
C18_RedBase ==
    (op = "leaf" /\ LastOverride(ColorOperators(args.transforms)) = 0) =>
        /\ result.color = Rgb_from(Resolved(BaseColor, ColorOperators(args.transforms)))
        /\ (\A k \in 1..Len(args.transforms) : NoColorChange(args.transforms[k]))
                => result.color = Rgb(60, 0, 0)

C18_Witness ==
    /\ op = "leaf"
    /\ args.transforms = <<None>>
    /\ ~result.mesh.transform.some
    /\ result.color = Rgb(60, 0, 0)

\* The centre of eight vertices.
Centre(vertices) ==
    LET RECURSIVE Sum(_, _)
        Sum(k, i) == IF i > Len(vertices) THEN 0 ELSE vertices[i][k] + Sum(k, i + 1)
    IN  <<Sum(1, 1) \div 8, Sum(2, 1) \div 8, Sum(3, 1) \div 8>>

\* The path of the cube of
\* Rule::new().push(Tf::ry(180.0), Rule::new().push(Tf::tx(4.0), cube())).
RotatedTranslatedCube == <<Some(Tf_ry(180)), Some(Tf_tx(80)), None>>

\* C19: the cube of Rule::new().push(Tf::ry(180.0),
\* Rule::new().push(Tf::tx(4.0), cube())) is translated -4.0 on the x axis in
\* the root frame: its vertices are the base cube's rotated 180 degrees about
\* the y axis, its centre at (-4, 0, 0).
C19_TranslatedMinusFour ==
    (op = "leaf" /\ args.transforms = RotatedTranslatedCube) =>
        /\ Centre(result.vertices) = <<-80, 0, 0>>
        /\ result.vertices =
               [i \in 1..Len(CUBE_MESH_vertices) |->
                    vertex(-CUBE_MESH_vertices[i][1] - 80,
                           CUBE_MESH_vertices[i][2],
                           -CUBE_MESH_vertices[i][3])]

\* C19 as the code has it: the rotation turns about the line through
\* (0.5, 0, 0.5), and the centre of the cube is at (-3, 0, 1).
C19_TranslatedAboutPivot ==
    (op = "leaf" /\ args.transforms = RotatedTranslatedCube) =>
        /\ Centre(result.vertices) = <<-60, 0, 20>>
        /\ result.vertices =
               [i \in 1..Len(CUBE_MESH_vertices) |->
                    vertex(-CUBE_MESH_vertices[i][1] - 60,
                           CUBE_MESH_vertices[i][2],
                           20 - CUBE_MESH_vertices[i][3])]

C19_Witness ==
    /\ op = "leaf"
    /\ args.transforms = RotatedTranslatedCube
    /\ Centre(result.vertices) = <<-60, 0, 20>>

\* C20: Tf::rx, Tf::ry and Tf::rz map every point of their coordinate axis,
\* the origin in particular, to itself, for every angle, and Tf::s and
\* Tf::sby map the origin to itself.
C20_OriginFixed ==
    op = "apply" =>
        /\ (args.t \in {Tf_rx(a) : a \in Angles} /\ args.v[2] = 0 /\ args.v[3] = 0)
                => result = args.v
        /\ (args.t \in {Tf_ry(a) : a \in Angles} /\ args.v[1] = 0 /\ args.v[3] = 0)
                => result = args.v
        /\ (args.t \in {Tf_rz(a) : a \in Angles} /\ args.v[1] = 0 /\ args.v[2] = 0)
                => result = args.v
        /\ (args.t \in {Tf_s(2), Tf_sby(2, 3, 1)} /\ args.v = vertex(0, 0, 0))
                => result = args.v

\* C20 as the code has it: the scales fix the origin; the rotations fix the
\* points of the line parallel to their axis through (0.5, 0.5, 0.5).
C20_PivotFixed ==
    op = "apply" =>
        /\ (args.t \in {Tf_rx(a) : a \in Angles} /\ args.v[2] = 10 /\ args.v[3] = 10)
                => result = args.v
        /\ (args.t \in {Tf_ry(a) : a \in Angles} /\ args.v[1] = 10 /\ args.v[3] = 10)
                => result = args.v
        /\ (args.t \in {Tf_rz(a) : a \in Angles} /\ args.v[1] = 10 /\ args.v[2] = 10)
                => result = args.v
        /\ (args.t \in {Tf_s(2), Tf_sby(2, 3, 1)} /\ args.v = vertex(0, 0, 0))
                => result = args.v

C20_Witness ==
    /\ op = "apply"
    /\ args.t = Tf_ry(180)
    /\ args.v = vertex(0, 0, 0)
    /\ result = vertex(20, 0, 20)

\* C21: for each axis and every angle a that is a multiple of 90 degrees, the
\* rotation by a composed with the rotation by -a about the same axis maps
\* every point to itself, in either order, and the rotation by 0 is the
\* identity.
C21_RotationInverse ==
    op = "inverse" =>
        /\ result.there_back = args.point
        /\ result.back_there = args.point
        /\ result.in_turn = args.point
        /\ result.zero = Transform_default

C21_Witness ==
    /\ op = "inverse"
    /\ args.axis = "z"
    /\ args.angle = 90
    /\ args.point = vertex(10, 20, 40)
    /\ result.moved # args.point
    /\ result.there_back = args.point

----------------------------------------------------------------------------
(* Properties of the meshes in memory, checked under Spec. *)

\* C22: the traversal creates, copies and modifies no mesh: every OutputMesh
\* refers to a mesh that was in memory before the traversal (a static, or
\* the user's Rc allocation), the records are distinct, and the meshes in
\* memory, their number and their contents, are those of the start after any
\* number of next() calls.
C22_MeshesShared ==
    /\ meshes = SphereMeshes
    /\ \A i \in 1..Len(emitted) : emitted[i].source \in DOMAIN meshes
    /\ (last # NotCalled /\ last.some) => last.val.source \in DOMAIN meshes
    /\ \A i, j \in 1..Len(emitted) : emitted[i].path = emitted[j].path => i = j

\* C22's case: the user's sphere invoked under two transforms, both emitted.
C22_Witness ==
    /\ Drained
    /\ Len(emitted) = 2
    /\ emitted[1].source = Dynamic(0)
    /\ emitted[2].source = Dynamic(0)
    /\ emitted[1].path # emitted[2].path
    /\ Cardinality(DOMAIN meshes) = 3

----------------------------------------------------------------------------
(* Properties of the OutputMesh accessors, checked under TfSpec. *)

\* C23: vertices() yields as many points as the source mesh has vertices, in
\* the same order, each the transform applied to the source vertex (the
\* source vertex itself without a transform); normals() is present iff the
\* source mesh defines normals; faces() yields the faces of the source mesh
\* unchanged, as local 1-based indices, whatever the transform.
C23_OutputMeshFields ==
    op = "fields" =>
        LET source == meshes[args.source]
        IN  /\ Len(result.vertices) = Len(source.vertices)
            /\ \A i \in 1..Len(source.vertices) :
                    result.vertices[i] =
                        IF args.transform = None
                        THEN source.vertices[i]
                        ELSE MatVec(args.transform.val.spatial, source.vertices[i])
            /\ result.normals.some <=> source.normals.some
            /\ result.normals.some => Len(result.normals.val) = Len(source.normals.val)
            /\ result.faces = source.faces
            /\ \A f \in 1..Len(result.faces) : \A k \in 1..Len(result.faces[f]) :
                    result.faces[f][k] \in 1..Len(source.vertices)

\* C23's case: the user's mesh, with normals, under a translation.
C23_Witness ==
    /\ op = "fields"
    /\ args.source = Dynamic(0)
    /\ args.transform = Some(Tf_tx(80))
    /\ result.vertices = <<vertex(80, 0, 0), vertex(100, 0, 0), vertex(80, 20, 0), vertex(80, 0, 20)>>
    /\ result.normals.some
    /\ result.faces = << <<1, 2, 3>>, <<1, 3, 4>> >>

\* C23's other case: the cube, without normals.
C23_CubeWitness ==
    /\ op = "fields"
    /\ args.source = Primitive("Cube")
    /\ args.transform = None
    /\ result.vertices = CUBE_MESH_vertices
    /\ ~result.normals.some

----------------------------------------------------------------------------
(* Properties of the export, checked under ExportSpec. *)

\* write_meshes has returned.
Exported == export.pc \in {"done", "returned"}

\* C24: every failed write to the object sink (mtllib, group, usemtl, v, vn
\* and f lines, the indices inside an f line included) makes write_meshes
\* return ObjWriteError, and every failure on the material file (its
\* creation or a write to it) makes it return MtlWriteError.
C24_FailuresTagged ==
    (Exported /\ export.failure.some) =>
        /\ export.failure.val.sink = "obj" => export.ret = Err("ObjWriteError")
        /\ export.failure.val.sink = "mtl" => export.ret = Err("MtlWriteError")

\* C24 as the code has it: a failed write of an index inside an f line is
\* returned as MtlWriteError; every other failure carries the tag of its sink.
C24_IndicesTaggedMtl ==
    (Exported /\ export.failure.some) =>
        IF export.failure.val.what = "index"
        THEN export.failure.val.sink = "obj" /\ export.ret = Err("MtlWriteError")
        ELSE /\ export.failure.val.sink = "obj" => export.ret = Err("ObjWriteError")
             /\ export.failure.val.sink = "mtl" => export.ret = Err("MtlWriteError")

\* C24's failing case: no material file is in use, the write of an index
\* fails, and the call returns MtlWriteError.
C24_Witness ==
    /\ Exported
    /\ export.config.export_colors = None
    /\ export.failure = Some([sink |-> "obj", what |-> "index", at |-> 1])
    /\ export.ret = Err("MtlWriteError")

\* C25: once a write to either sink fails, write_meshes returns that error at
\* once: it makes no further write to the object sink or the material file
\* and pulls no further mesh from the iterator; crate::write_meshes returns
\* the same error wrapped as Error::Export (and Ok(()) for Ok(())).
C25_StopsAtFirstFailure ==
    [][/\ export.failure.some =>
            /\ export'.sink = export.sink
            /\ export'.mtl = export.mtl
            /\ export'.pulled = export.pulled
            /\ export'.ret = export.ret
            /\ export'.failure = export.failure
       /\ export'.failure.some => (export'.ret.tag = "Err" /\ export'.pc \in {"done", "returned"})
       /\ export'.pc = "returned" =>
            export'.lib_ret = IF export'.ret.tag = "Err"
                              THEN Err([Export |-> export'.ret.error])
                              ELSE Ok]_vars

\* C25's case: the second v line of the first of two meshes fails; one v
\* line was written, the second mesh was not pulled.
C25_Witness ==
    /\ export.pc = "returned"
    /\ Len(export.input) = 2
    /\ export.pulled = 1
    /\ export.failure = Some([sink |-> "obj", what |-> "v", at |-> 1])
    /\ Len(export.sink) = 1
    /\ export.lib_ret = Err([Export |-> "ObjWriteError"])

\* The vertices and the normals of the first k meshes of the input.
RECURSIVE VertexTotal(_, _)
VertexTotal(input, k) ==
    IF k = 0 THEN 0 ELSE VertexTotal(input, k - 1) + Len(meshes[input[k].source].vertices)

RECURSIVE NormalTotal(_, _)
NormalTotal(input, k) ==
    IF k = 0
    THEN 0
    ELSE NormalTotal(input, k - 1)
            + (IF meshes[input[k].source].normals.some
               THEN Len(meshes[input[k].source].normals.val)
               ELSE 0)

\* The local indices of the faces of a mesh, in the order they are written.
RECURSIVE Flatten(_)
Flatten(faces) == IF faces = <<>> THEN <<>> ELSE Head(faces) \o Flatten(Tail(faces))

\* The lines of one kind in the object sink, and the pieces of one kind
\* written for mesh k.
Lines(kind) == SelectSeq(export.sink, LAMBDA c : c.kind = kind)
Pieces(kind, k) == SelectSeq(export.sink, LAMBDA c : c.kind = kind /\ c.mesh = k)

\* C26: every vertex index written in an f line of the k-th mesh is its
\* local 1-based index plus the vertex count of the meshes 1..k-1, and so
\* designates a v line written for that same mesh; with normals the normal
\* index is the local index plus the normal count of the earlier meshes.
C26_GlobalIndices ==
    export.pc # "idle" =>
        \A k \in 1..export.pulled :
            LET written == Pieces("index", k)
                local == Flatten(meshes[export.input[k].source].faces)
                vs == Lines("v")
            IN  /\ Len(written) <= Len(local)
                /\ \A j \in 1..Len(written) :
                    /\ written[j].data[1] = local[j] + VertexTotal(export.input, k - 1)
                    /\ written[j].data[1] \in 1..Len(vs)
                    /\ vs[written[j].data[1]].mesh = k
                    /\ vs[written[j].data[1]].data =
                            SubSeq(OutputMesh_vertices(export.input[k])[local[j]], 1, 3)
                    /\ IF meshes[export.input[k].source].normals.some
                       THEN /\ Len(written[j].data) = 2
                            /\ written[j].data[2] = local[j] + NormalTotal(export.input, k - 1)
                       ELSE Len(written[j].data) = 1

\* C26's case: two meshes with normals exported in full; the last index of
\* the second is 4 + 4 for the vertex and for the normal.
C26_Witness ==
    /\ export.pc = "returned"
    /\ export.ret = Ok
    /\ Len(export.input) = 2
    /\ export.input[1].source = Dynamic(0)
    /\ export.input[2].source = Dynamic(0)
    /\ export.sink[Len(export.sink) - 1].data = <<8, 8>>

----------------------------------------------------------------------------
(* Properties of the worklist, checked under Spec. *)

Max(a, b) == IF a >= b THEN a ELSE b

\* The largest element of a set of naturals, 0 for the empty set.
Largest(S) == IF S = {} THEN 0 ELSE CHOOSE m \in S : \A x \in S : m >= x

\* The shape of the tree below node, node included: b, the most invocation
\* entries of an expanded rule; d, the most expansions on a path from node
\* down to a node without children.
RECURSIVE Shape(_)
Shape(node) ==
    IF node.tag = "Mesh"
    THEN [b |-> 0, d |-> 0]
    ELSE LET inv == (CHOOSE r \in to_rule(node.obj, 0) : TRUE).invocations
             below == {Shape(child) : child \in {inv[i].rule : i \in 1..Len(inv)}}
         IN  [b |-> Max(Len(inv), Largest({s.b : s \in below})),
              d |-> 1 + Largest({s.d : s \in below})]

Branching(node) == Shape(node).b

Expansions(node) == Shape(node).d

\* C27: when every expanded rule has at most b invocation entries and every
\* root-to-leaf path has at most d expansions, the worklist never holds more
\* than 1 + d*(b-1) entries.  (The bound grows with b and with d: it is
\* stated for the least b and d of the tree.)
C27_WorklistBound ==
    (phase = "iter" /\ Finite) =>
        \E s \in {Shape(RootNode)} : Len(rules) <= 1 + s.d * (s.b - 1)

\* C27 for b >= 1.
C27_WorklistBoundBranching ==
    (phase = "iter" /\ Finite) =>
        \E s \in {Shape(RootNode)} : Len(rules) <= 1 + s.d * (Max(s.b, 1) - 1)

\* C27's case: two invocations of a rule of three cubes; six leaves, b = 3,
\* d = 3, and the worklist at its fullest holds four entries.
C27_Witness ==
    /\ phase = "iter"
    /\ Finite
    /\ Branching(RootNode) = 3
    /\ Expansions(RootNode) = 3
    /\ Cardinality(Leaves(RootNode, <<>>)) = 6
    /\ Len(rules) = 4

\* C27's failing case: the empty rule, Rule::new().generate(): b = 0, d = 1,
\* and the worklist holds the root entry.
C27_EmptyRuleWitness ==
    /\ phase = "iter"
    /\ rule = Rule_new
    /\ Branching(RootNode) = 0
    /\ Expansions(RootNode) = 1
    /\ Len(rules) = 1

C28_AllAbsentWitness ==
    /\ op = "absent"
    /\ args.transforms = <<None, None>>
    /\ args.replaced = {0}
    /\ result.present.color = result.absent.color
    /\ result.present.vertices = CustomMesh.vertices

\* C29: inside a tf![...] list a None argument is the identity stage:
\* pushing tf![t, None] or tf![None, t] invokes the child exactly once, with
\* transform t.
C29_NoneIsIdentityStage ==
    (op = "optional" /\ args.items \in {"t, None", "None, t"}) =>
        result.rule = <<Invocation(Some(args.given), RuleInvocations(1, cube))>>

\* What the code does: a None in the list empties the converted list, and
\* the child is invoked once with no transform, as for a lone None.
C29_NoneCancelsStages ==
    op = "optional" =>
        /\ result.converted = Many(<<>>)
        /\ result.rule = <<Invocation(None, RuleInvocations(1, cube))>>

\* C29's case: tf![Tf::tx(1.0), None] => cube() holds one invocation of the
\* cube with no transform.
C29_Witness ==
    /\ op = "optional"
    /\ args.items = "t, None"
    /\ args.given = Tf_tx(20)
    /\ result.rule = <<Invocation(None, RuleInvocations(1, cube))>>

----------------------------------------------------------------------------
(* Properties of the batch expansion, checked under SystemSpec. *)

\* The tag a precedes the tag b in level order.
Precedes(a, b) == a[1] < b[1] \/ (a[1] = b[1] /\ a[2] < b[2])

\* What holds of every compile call, at every step: with a budget of 0 no
\* producer is called and no mesh is returned; produce is called in the loop
\* only for characters whose budget is > 0, so that the budget passed is
\* never below 0; the characters dropped have the budget 0; the meshes are
\* collected in level order, and every Constant produced is returned.
C30_Budgeted ==
    system.pc # "idle" =>
        /\ system.parameters.depth_budget = 0 =>
                system.calls = <<>> /\ system.meshes = <<>> /\ system.level = 0
        /\ \A k \in 1..Len(system.calls) :
                /\ system.calls[k].passed >= 0
                /\ (k = 1) = ~system.calls[k].character.some
                /\ system.calls[k].character.some =>
                        /\ system.calls[k].character.val > 0
                        /\ system.calls[k].passed = system.calls[k].character.val - 1
        /\ \A k \in 1..Len(system.dropped) : system.dropped[k] = 0
        /\ \A k \in 1..(Len(system.meshes) - 1) :
                Precedes(system.meshes[k], system.meshes[k + 1])
        /\ system.pc = "returned" =>
                system.ret = Some(system.meshes) /\ Len(system.meshes) = system.constants

\* C30 as stated: compile takes up at most depth_budget levels.
C30_AtMostBudgetLevels ==
    system.pc # "idle" => system.level <= system.parameters.depth_budget

\* The levels compile takes up: the string of the root producer and at most
\* depth_budget further ones.
C30_AtMostBudgetPlusOneLevels ==
    system.pc # "idle" =>
        system.level <= (IF system.parameters.depth_budget = 0
                         THEN 0 ELSE system.parameters.depth_budget + 1)

\* C30: compile returns no mesh and calls no producer when depth_budget is
\* 0; otherwise, the producers returning characters whose budget is not
\* larger than the one passed, compile terminates after at most
\* depth_budget + 1 levels, calls produce only for characters whose budget
\* is > 0, drops the characters whose budget is 0 and returns the Constant
\* meshes in level order.
C30_Terminates ==
    /\ [](C30_Budgeted /\ C30_AtMostBudgetPlusOneLevels)
    /\ <>(system.pc = "returned")

\* C30's case: compile(Parameters { depth_budget: 2, .. }, Stack) has
\* returned: three levels, the calls with budgets 2, 1, 1, 0, 0, the two
\* producers of budget 0 dropped, the two cubes returned in level order.
C30_Witness ==
    /\ system.pc = "returned"
    /\ system.parameters.depth_budget = 2
    /\ system.producer = Stack
    /\ system.level = 3
    /\ Len(system.calls) = 5
    /\ system.dropped = <<0, 0>>
    /\ system.ret = Some(<<<<2, 1>>, <<3, 1>>>>)

====
